---- MODULE Spec2Model ----
(***************************************************************************)
(* The deploy / redeploy pipeline of ao: partitions -> concurrent dispatch *)
(* (one goroutine per partition, an unbuffered result channel) -> fan-in   *)
(* -> result aggregation -> the command's error return.                    *)
(*                                                                         *)
(* The repository holds three generations of the dispatcher:               *)
(*   "deploy"   cmd/deploy.go        performDeploy, one task per partition *)
(*   "redeploy" unnamed/part_005     performRedeploy, one task per         *)
(*                                   partition                             *)
(*   "plan"     unnamed/part_007     deployToCluster, one task per cluster *)
(*                                   over the units of a deployment plan   *)
(* and, for the steps before the dispatch, the oldest one:                 *)
(*   "legacy"   unnamed/part_008     the payload to every reachable        *)
(*                                   cluster                               *)
(* gen says which one a behaviour runs.                                    *)
(***************************************************************************)
EXTENDS Integers, Sequences, FiniteSets, TLC

\* ---- bounds -------------------------------------------------------------
MaxApps == 2

\* ---- the universe of inputs ---------------------------------------------
Clusters == {"east", "west"}
Namespaces == {"dev", "prod"}
Apps == 1..MaxApps
Keys == Clusters \X Namespaces
Generations == {"deploy", "redeploy", "plan"}

\* A nil error.
nil == "nil"
\* The message of the error a failing remote call returns (err.Error()).
TransportError == "transport error"
NotReachable == "Cluster is not reachable"
\* The runtime panics that end the process.
NilDereference == "panic: nil pointer dereference"
SliceOutOfRange == "panic: slice bounds out of range"

VARIABLES
  gen,         \* the generation of the command that runs
  reachable,   \* AO.Clusters: cluster name -> Reachable
  partitions,  \* partition key -> partition (cluster, namespace, apps)
  mainpc,      \* position of the orchestrating flow
  started,     \* the tasks the go statement has started
  task,        \* task id -> [pc, todo, cur, val]
  received,    \* the loop counter i of the receive loop
  allResults,  \* the bundles received so far, in arrival order
  dispErr,     \* the error the dispatcher returns
  printErr,    \* what the result aggregator returned
  cmdErr,      \* the error the command returns (exit status)
  calls,       \* history: partition key -> the payloads of the remote calls made
  remote,      \* history: partition key -> what the remote call returned
  emitted,     \* history: partition key -> bundles sent on the result channel
  unitCount,   \* deploymentPlan.UnitCount (generation "plan")
  infos,       \* the resolved specs of the run, in the order they are listed
  shouldDeploy,\* the confirmation gate's verdict: "none" before it is taken
  reported,    \* the sorted list the aggregator hands to the table printer
  fnArgs,      \* the arguments of a library function applied on its own
  fnRet,       \* what that function returned
  overrideConfig, \* the map parseOverride returned, shared by the tasks
  localhost,   \* AO.Localhost
  vaults,      \* the vaults the server stores: vault name -> Secrets
  vault,       \* the vault a vault command holds (GetVault's result)
  shouldDelete,\* the answer to a vault command's prompt: "none" before it
  vaultCalls,  \* history: the requests a vault command has sent
  secrets,     \* a client.Secrets map: secret name -> base64 text
  permissions  \* a client.Permissions map's "groups" list

vars == <<gen, reachable, partitions, mainpc, started, task, received,
          allResults, dispErr, printErr, cmdErr, calls, remote, emitted,
          unitCount, infos, shouldDeploy, reported, fnArgs, fnRet,
          overrideConfig, localhost, vaults, vault, shouldDelete, vaultCalls,
          secrets, permissions>>

vaultVars == <<vaults, vault, shouldDelete, vaultCalls, secrets, permissions>>

\* No vault command runs and no vault object is in use.
NoVault ==
  /\ vaults = << >>
  /\ vault = [none |-> TRUE]
  /\ shouldDelete = "none"
  /\ vaultCalls = <<>>
  /\ secrets = << >>
  /\ permissions = <<>>

\* ---- helpers ------------------------------------------------------------
RECURSIVE SumOver(_, _)
SumOver(f, S) ==
  IF S = {} THEN 0
  ELSE LET x == CHOOSE y \in S : TRUE IN f[x] + SumOver(f, S \ {x})

RECURSIVE Flatten(_)
Flatten(ss) == IF ss = <<>> THEN <<>> ELSE Head(ss) \o Flatten(Tail(ss))

Range(s) == {s[i] : i \in DOMAIN s}

RECURSIVE SetToSeq(_)
SetToSeq(S) ==
  IF S = {} THEN <<>>
  ELSE LET m == CHOOSE x \in S : \A y \in S : x <= y
       IN <<m>> \o SetToSeq(S \ {m})

\* ---- partitioning ---------------------------------------------------------
\* A partition: its cluster (by name, looked up in the registry `reachable`),
\* its namespace and the ordered list of its applications.
newDeploymentPartition(deploymentInfos, clusterName, namespace) ==
  [cluster |-> clusterName, namespace |-> namespace, apps |-> deploymentInfos]

\* createDeploymentPartitionsFrom with a partitionID of the cluster name alone.
RECURSIVE createDeploymentPartitionsByCluster(_, _, _)
createDeploymentPartitionsByCluster(clusters, deployInfos, partitionMap) ==
  IF deployInfos = <<>> THEN [err |-> nil, partitions |-> partitionMap]
  ELSE LET info == Head(deployInfos)
           partitionID == <<info.ClusterName, "dev">>
       IN IF partitionID \notin DOMAIN partitionMap /\ info.ClusterName \notin clusters
          THEN [err |-> "No such cluster", partitions |-> << >>]
          ELSE LET created ==
                     IF partitionID \in DOMAIN partitionMap THEN partitionMap
                     ELSE partitionMap @@
                          (partitionID :> [cluster |-> info.ClusterName,
                                           namespace |-> info.Namespace, apps |-> <<>>])
                   appended ==
                     [created EXCEPT ![partitionID].apps = Append(@, info.app)]
               IN createDeploymentPartitionsByCluster(clusters, Tail(deployInfos), appended)

\* createDeploymentPartitions: one partition per (clusterName, namespace),
\* created on the first info of that key; an unknown cluster is an error.
RECURSIVE createDeploymentPartitionsFrom(_, _, _)
createDeploymentPartitionsFrom(clusters, deployInfos, partitionMap) ==
  IF deployInfos = <<>> THEN [err |-> nil, partitions |-> partitionMap]
  ELSE LET info == Head(deployInfos)
           partitionID == <<info.ClusterName, info.Namespace>>
       IN IF partitionID \notin DOMAIN partitionMap /\ info.ClusterName \notin clusters
          THEN [err |-> "No such cluster", partitions |-> << >>]
          ELSE LET created ==
                     IF partitionID \in DOMAIN partitionMap THEN partitionMap
                     ELSE partitionMap @@
                          (partitionID :> newDeploymentPartition(<<>>, info.ClusterName, info.Namespace))
                   appended ==
                     [created EXCEPT ![partitionID].apps = Append(@, info.app)]
               IN createDeploymentPartitionsFrom(clusters, Tail(deployInfos), appended)

createDeploymentPartitions(clusters, deployInfos) ==
  createDeploymentPartitionsFrom(clusters, deployInfos, << >>)

\* createRequestPartitions (cmd/deploy.go:115) builds the partitions of the
\* deploy command, keyed by requestPartitionID, in the same way.
createRequestPartitions(clusters, deploySpecs) ==
  createDeploymentPartitions(clusters, deploySpecs)

\* createDeploymentPlan: units[clusterName][envName], created on the first
\* spec of that pair, counted in UnitCount; the cluster is whatever the
\* registry AO.Clusters holds under the name: nil when it holds nothing.
RECURSIVE createDeploymentPlanFrom(_, _, _)
createDeploymentPlanFrom(deploymentSpecs, units, count) ==
  IF deploymentSpecs = <<>> THEN [DeploymentUnits |-> units, UnitCount |-> count]
  ELSE LET spec == Head(deploymentSpecs)
           id == <<spec.ClusterName, spec.Namespace>>
           exists == id \in DOMAIN units
           created ==
             IF exists THEN units
             ELSE units @@ (id :> [cluster |-> IF spec.ClusterName \in DOMAIN reachable
                                               THEN spec.ClusterName ELSE nil,
                                   namespace |-> spec.Namespace, apps |-> <<>>])
       IN createDeploymentPlanFrom(
            Tail(deploymentSpecs),
            [created EXCEPT ![id].apps = Append(@, spec.app)],
            IF exists THEN count ELSE count + 1)

createDeploymentPlan(deploymentSpecs) ==
  createDeploymentPlanFrom(deploymentSpecs, << >>, 0)

\* The selections a run can resolve: any subset of the applications, each
\* with a destination, listed in ascending order of application.
SelectionsOf(A) ==
  UNION {
    { [i \in 1..Cardinality(S) |->
         [app |-> SetToSeq(S)[i],
          ClusterName |-> dest[SetToSeq(S)[i]][1],
          Namespace |-> dest[SetToSeq(S)[i]][2]]] : dest \in [S -> Keys] }
    : S \in SUBSET A }

Selections == SelectionsOf(Apps)

PartitionsOf(g, specs) ==
  CASE g = "deploy" -> createRequestPartitions(Clusters, specs).partitions
    [] g = "redeploy" -> createDeploymentPartitions(Clusters, specs).partitions
    [] g = "plan" -> createDeploymentPlan(specs).DeploymentUnits

\* ---- results --------------------------------------------------------------
\* No bundle (a nil pointer, a local not yet assigned).
NoBundle == [none |-> TRUE]
\* The remote call has not returned.
NoAnswer == [none |-> TRUE]

\* client.DeployResults / client.RedeployResults
Results(message, success, results) ==
  [Message |-> message, Success |-> success, Results |-> results]

\* errorDeployResults: one synthetic failed result per spec of the partition.
errorDeployResults(reason, partition) ==
  Results(reason, FALSE,
          [i \in 1..Len(partition.apps) |->
             [app |-> partition.apps[i], DeployId |-> "-", Ignored |-> FALSE,
              Success |-> FALSE, Reason |-> reason]])

\* partialRedeployResult
newPartialRedeployResults(partition, redeployResults) ==
  [partition |-> partition, redeployResults |-> redeployResults]

\* getErrorRedeployResults: one failed result per info of the partition.
getErrorRedeployResults(reason, partition) ==
  newPartialRedeployResults(partition,
    Results(reason, FALSE,
            [i \in 1..Len(partition.apps) |->
               [app |-> partition.apps[i], Success |-> FALSE, Reason |-> reason]]))

\* ---- the remote operations (external) -------------------------------------
\* ApplicationDeploymentClient.Deploy: an error, or one result per
\* application of the payload, each with the flags the server chose.
DeployEntries(app) ==
  { [app |-> app, DeployId |-> "d", Ignored |-> ig, Success |-> ok,
     Reason |-> IF ok THEN "" ELSE "deploy failed"] : ig, ok \in BOOLEAN }

RECURSIVE DeployEntrySeqs(_)
DeployEntrySeqs(applicationList) ==
  IF applicationList = <<>> THEN { <<>> }
  ELSE { <<e>> \o rest : e \in DeployEntries(Head(applicationList)),
                         rest \in DeployEntrySeqs(Tail(applicationList)) }

Deploy(applicationList) ==
  { [err |-> TransportError, result |-> NoBundle] }
  \cup { [err |-> nil, result |-> Results("", ok, rs)] :
           ok \in BOOLEAN, rs \in DeployEntrySeqs(applicationList) }

\* ApplicationDeploymentClient.Redeploy
RedeployEntries(app) ==
  { [app |-> app, Success |-> ok,
     Reason |-> IF ok THEN "" ELSE "redeploy failed"] : ok \in BOOLEAN }

RECURSIVE RedeployEntrySeqs(_)
RedeployEntrySeqs(applicationRefs) ==
  IF applicationRefs = <<>> THEN { <<>> }
  ELSE { <<e>> \o rest : e \in RedeployEntries(Head(applicationRefs)),
                         rest \in RedeployEntrySeqs(Tail(applicationRefs)) }

Redeploy(applicationRefs) ==
  { [err |-> TransportError, result |-> NoBundle] }
  \cup { [err |-> nil, result |-> Results("", ok, rs)] :
           ok \in BOOLEAN, rs \in RedeployEntrySeqs(applicationRefs) }

\* ---- the result aggregator -------------------------------------------------
\* ADS.Name / ApplicationRef.Name of an application: two applications (the
\* same application file in two environments) can carry one name.
AppNames == <<"foo", "bar">>
Name(app) == AppNames[((app - 1) % Len(AppNames)) + 1]

\* strings.Compare on the names: -1, 0 or 1 by lexical order.
NamesAscending == <<"bar", "foo">>
Rank(name) == CHOOSE i \in DOMAIN NamesAscending : NamesAscending[i] = name
Compare(a, b) == IF Rank(a) < Rank(b) THEN 0 - 1 ELSE IF Rank(a) = Rank(b) THEN 0 ELSE 1

\* The less function every sort.Slice of the results is given:
\* strings.Compare(nameA, nameB) < 1.
lessWithArgumentsSwapped(x, y) == Compare(Name(y.app), Name(x.app)) < 1
less(x, y) == Compare(Name(x.app), Name(y.app)) < 1

\* sort.Slice on a slice of fewer than 12 elements is an insertion sort:
\*   for i := a + 1; i < b; i++ {
\*     for j := i; j > a && less(j, j-1); j-- { swap(j, j-1) } }
\* bubble is the inner loop for the element at j.
RECURSIVE bubble(_, _)
bubble(data, j) ==
  IF j > 1 /\ less(data[j], data[j - 1])
  THEN bubble([data EXCEPT ![j] = data[j - 1], ![j - 1] = data[j]], j - 1)
  ELSE data

RECURSIVE insertionSort(_, _)
insertionSort(data, i) ==
  IF i > Len(data) THEN data ELSE insertionSort(bubble(data, i), i + 1)

sortSlice(data) == insertionSort(data, 2)

\* The list printDeployResult (and the plan generation's deploy) sorts and
\* hands to getDeployResultTable.
flattenDeployResults(result) == Flatten([i \in 1..Len(result) |-> result[i].Results])

sortedDeployResults(result) == sortSlice(flattenDeployResults(result))

\* tableData of getRedeployResultTableContent before it is sorted: one view
\* item per redeploy result, with the cluster of the bundle's partition.
flattenRedeployResults(allRes) ==
  Flatten([i \in 1..Len(allRes) |->
             [j \in 1..Len(allRes[i].redeployResults.Results) |->
                [cluster |-> allRes[i].partition.cluster,
                 app |-> allRes[i].redeployResults.Results[j].app,
                 success |-> allRes[i].redeployResults.Results[j].Success,
                 reason |-> allRes[i].redeployResults.Results[j].Reason]]])

sortedRedeployResults(allRes) == sortSlice(flattenRedeployResults(allRes))

\* getDeployResultTable: one row per result that is not ignored.
getDeployResultTable(deploys) == SelectSeq(deploys, LAMBDA item : ~item.Ignored)

\* printDeployResult (and the same lines inlined in the plan generation's
\* deploy): the error it returns, nil for success.
printDeployResult(result) ==
  LET results == Flatten([i \in 1..Len(result) |-> result[i].Results])
      rows == getDeployResultTable(results)
  IN IF Len(results) = 0 THEN "No deploys were made"
     ELSE IF Len(rows) = 0 THEN nil
     ELSE IF \E i \in 1..Len(results) : ~results[i].Success
          THEN "One or more deploys failed"
          ELSE nil

\* redeployApplicationDeployment, lines 124-130: the error the command ends
\* with, decided by the bundles' own Success flags.
redeployExit(fullResults) ==
  IF \E i \in 1..Len(fullResults) : ~fullResults[i].redeployResults.Success
  THEN "One or more redeploy operations failed"
  ELSE nil

\* ---- initial state ---------------------------------------------------------
\* The tasks a dispatch starts: one per partition, or (plan) one per cluster
\* of the plan.
TaskIds(g, parts) ==
  IF g = "plan" THEN {k[1] : k \in DOMAIN parts} ELSE DOMAIN parts

UnitsOf(g, parts, t) ==
  IF g = "plan" THEN {k \in DOMAIN parts : k[1] = t} ELSE {t}

NoUnit == <<"", "">>

\* No library function is applied on its own.
NoCall == [fn |-> "none"]

\* The state when the dispatcher is entered; aoLocalhost is AO.Localhost, the
\* --localhost flag of cmd/root.go.
InitDispatch(g, aoLocalhost) ==
  /\ gen = g
  /\ reachable \in [Clusters -> BOOLEAN]
  /\ infos \in Selections
  \* redeploy returns "No applications to redeploy" on an empty list
  /\ g = "redeploy" => infos # <<>>
  /\ partitions = PartitionsOf(g, infos)
  /\ unitCount = IF g = "plan" THEN createDeploymentPlan(infos).UnitCount ELSE 0
  /\ shouldDeploy = "true"
  /\ reported = <<>>
  /\ fnArgs = NoCall
  /\ fnRet = NoCall
  /\ mainpc = "dispatch"
  /\ started = {}
  /\ task = [t \in TaskIds(g, partitions) |->
               [pc |-> "idle", todo |-> UnitsOf(g, partitions, t), cur |-> NoUnit,
                val |-> NoBundle, err |-> nil]]
  /\ received = 0
  /\ allResults = <<>>
  /\ dispErr = "none"
  /\ printErr = "none"
  /\ cmdErr = "none"
  /\ calls = [k \in DOMAIN partitions |-> <<>>]
  /\ remote = [k \in DOMAIN partitions |-> NoAnswer]
  /\ emitted = [k \in DOMAIN partitions |-> <<>>]
  /\ overrideConfig = << >>
  /\ localhost = aoLocalhost
  /\ NoVault

InitFor(g) == InitDispatch(g, FALSE)

Init == \E g \in Generations : InitFor(g)

Tasks == DOMAIN task

\* ---- generation "deploy": cmd/deploy.go ------------------------------------
\* performDeployBundle with the results reinterpreted: the ignored entries
\* of a successful answer are left out of the bundle.
performDeployBundleWithoutIgnored(answer, partition) ==
  IF answer.err # nil THEN errorDeployResults(answer.err, partition)
  ELSE [answer.result EXCEPT !.Results = SelectSeq(@, LAMBDA r : ~r.Ignored)]

\* What the task puts on the channel once Deploy has returned (result, err).
performDeployBundle(answer, partition) ==
  IF answer.err # nil THEN errorDeployResults(answer.err, partition)
  ELSE answer.result

\* client.NewDeployPayload(applicationList, overrideConfig)
NewDeployPayload(applicationList, overrides) ==
  [applicationList |-> applicationList, overrides |-> overrides]

\* client.NewRedeployPayload(applicationRefs)
NewRedeployPayload(applicationRefs) == [applicationRefs |-> applicationRefs]

\* The application list of the payload: the refs of the partition's specs.
deployPayload(partition) == partition.apps

\* goPerformDeploy with the go statement placed ahead of the confirmation:
\* it runs wherever the flow is.
goPerformDeployBeforeConfirmation(k) ==
  /\ gen = "deploy"
  /\ k \in Tasks \ started
  /\ started' = started \cup {k}
  /\ task' = [task EXCEPT ![k].pc = "start"]
  /\ UNCHANGED <<vaultVars, localhost, overrideConfig, infos, shouldDeploy, reported, fnArgs, fnRet, gen, reachable, partitions, mainpc, received, allResults,
                 dispErr, printErr, cmdErr, calls, remote, emitted, unitCount>>

\* go performDeploy(getClient(partition), partition, overrideConfig, deployResult)
goPerformDeploy(k) ==
  /\ gen = "deploy" /\ mainpc = "dispatch"
  /\ k \in Tasks \ started
  /\ started' = started \cup {k}
  /\ task' = [task EXCEPT ![k].pc = "start"]
  /\ UNCHANGED <<vaultVars, localhost, overrideConfig, infos, shouldDeploy, reported, fnArgs, fnRet, gen, reachable, partitions, mainpc, received, allResults,
                 dispErr, printErr, cmdErr, calls, remote, emitted, unitCount>>

\* the range loop over the partitions has started every task
deployLoopEnd ==
  /\ gen = "deploy" /\ mainpc = "dispatch"
  /\ started = Tasks
  /\ mainpc' = "collect"
  /\ UNCHANGED <<vaultVars, localhost, overrideConfig, infos, shouldDeploy, reported, fnArgs, fnRet, gen, reachable, partitions, started, task, received, allResults,
                 dispErr, printErr, cmdErr, calls, remote, emitted, unitCount>>

\* performDeploy up to the remote call: an unreachable cluster gets the
\* synthetic bundle and no call.
performDeployStart(k) ==
  /\ gen = "deploy" /\ k \in Tasks /\ task[k].pc = "start"
  /\ IF ~reachable[partitions[k].cluster]
     THEN task' = [task EXCEPT ![k].pc = "send",
                               ![k].val = errorDeployResults(NotReachable, partitions[k])]
     ELSE task' = [task EXCEPT ![k].pc = "call"]
  /\ UNCHANGED <<vaultVars, localhost, overrideConfig, infos, shouldDeploy, reported, fnArgs, fnRet, gen, reachable, partitions, mainpc, started, received, allResults,
                 dispErr, printErr, cmdErr, calls, remote, emitted, unitCount>>

\* performDeploy with the call repeated once after an error.
performDeployCallWithRetry(k) ==
  /\ gen = "deploy" /\ k \in Tasks /\ task[k].pc = "call"
  /\ \E answer \in Deploy(deployPayload(partitions[k])) :
       /\ calls' = [calls EXCEPT ![k] =
                      Append(@, NewDeployPayload(deployPayload(partitions[k]),
                                                 overrideConfig))]
       /\ remote' = [remote EXCEPT ![k] = answer]
       /\ task' = IF answer.err # nil /\ calls[k] = <<>>
                  THEN task
                  ELSE [task EXCEPT ![k].pc = "send",
                                    ![k].val = performDeployBundle(answer, partitions[k])]
  /\ UNCHANGED <<vaultVars, localhost, overrideConfig, infos, shouldDeploy, reported, fnArgs, fnRet, gen, reachable, partitions, mainpc, started, received, allResults,
                 dispErr, printErr, cmdErr, emitted, unitCount>>

\* result, err := deployClient.Deploy(payload), and the choice of the bundle
performDeployCall(k) ==
  /\ gen = "deploy" /\ k \in Tasks /\ task[k].pc = "call"
  /\ \E answer \in Deploy(deployPayload(partitions[k])) :
       /\ calls' = [calls EXCEPT ![k] =
                      Append(@, NewDeployPayload(deployPayload(partitions[k]),
                                                 overrideConfig))]
       /\ remote' = [remote EXCEPT ![k] = answer]
       /\ task' = [task EXCEPT ![k].pc = "send",
                               ![k].val = performDeployBundle(answer, partitions[k])]
  /\ UNCHANGED <<vaultVars, localhost, overrideConfig, infos, shouldDeploy, reported, fnArgs, fnRet, gen, reachable, partitions, mainpc, started, received, allResults,
                 dispErr, printErr, cmdErr, emitted, unitCount>>

\* allResults = append(allResults, <-deployResult): the rendezvous of a
\* task blocked in its send with the receive of iteration i.
deployReceive(k) ==
  /\ gen = "deploy" /\ mainpc = "collect"
  /\ received < Cardinality(DOMAIN partitions)
  /\ k \in Tasks /\ task[k].pc = "send"
  /\ allResults' = Append(allResults, task[k].val)
  /\ received' = received + 1
  /\ emitted' = [emitted EXCEPT ![k] = Append(@, task[k].val)]
  /\ task' = [task EXCEPT ![k].pc = "done"]
  /\ UNCHANGED <<vaultVars, localhost, overrideConfig, infos, shouldDeploy, reported, fnArgs, fnRet, gen, reachable, partitions, mainpc, started, dispErr, printErr,
                 cmdErr, calls, remote, unitCount>>

\* return allResults, nil
deployReturn ==
  /\ gen = "deploy" /\ mainpc = "collect"
  /\ ~(received < Cardinality(DOMAIN partitions))
  /\ mainpc' = "returned"
  /\ dispErr' = nil
  /\ UNCHANGED <<vaultVars, localhost, overrideConfig, infos, shouldDeploy, reported, fnArgs, fnRet, gen, reachable, partitions, started, task, received, allResults,
                 printErr, cmdErr, calls, remote, emitted, unitCount>>

\* The error deploy returns after the dispatch, lines 124-131: the
\* dispatcher's error if any; printDeployResult's return value is dropped.
deployExit(err, printed) == IF err # nil THEN err ELSE nil

deployFinish ==
  /\ gen = "deploy" /\ mainpc = "returned"
  /\ printErr' = IF dispErr # nil THEN "none" ELSE printDeployResult(allResults)
  /\ reported' = IF dispErr # nil THEN <<>> ELSE sortedDeployResults(allResults)
  /\ cmdErr' = deployExit(dispErr, printDeployResult(allResults))
  /\ mainpc' = "done"
  /\ UNCHANGED <<vaultVars, localhost, overrideConfig, infos, shouldDeploy, fnArgs, fnRet, gen, reachable, partitions, started, task, received, allResults,
                 dispErr, calls, remote, emitted, unitCount>>

NextDeploy ==
  \/ \E k \in Keys : goPerformDeploy(k)
  \/ deployLoopEnd
  \/ \E k \in Keys : performDeployStart(k)
  \/ \E k \in Keys : performDeployCall(k)
  \/ \E k \in Keys : deployReceive(k)
  \/ deployReturn
  \/ deployFinish

SpecDeploy == InitFor("deploy") /\ [][NextDeploy]_vars

\* ---- generation "redeploy": unnamed/part_005 -------------------------------
performRedeployBundle(answer, partition) ==
  IF answer.err # nil THEN getErrorRedeployResults(answer.err, partition)
  ELSE newPartialRedeployResults(partition, answer.result)

\* The application refs of the payload: (namespace, name) of each info.
redeployPayload(partition) == partition.apps

\* go performRedeploy(getClient(partition.Partition), partition, partitionResult)
goPerformRedeploy(k) ==
  /\ gen = "redeploy" /\ mainpc = "dispatch"
  /\ k \in Tasks \ started
  /\ started' = started \cup {k}
  /\ task' = [task EXCEPT ![k].pc = "start"]
  /\ UNCHANGED <<vaultVars, localhost, overrideConfig, infos, shouldDeploy, reported, fnArgs, fnRet, gen, reachable, partitions, mainpc, received, allResults,
                 dispErr, printErr, cmdErr, calls, remote, emitted, unitCount>>

redeployLoopEnd ==
  /\ gen = "redeploy" /\ mainpc = "dispatch"
  /\ started = Tasks
  /\ mainpc' = "collect"
  /\ UNCHANGED <<vaultVars, localhost, overrideConfig, infos, shouldDeploy, reported, fnArgs, fnRet, gen, reachable, partitions, started, task, received, allResults,
                 dispErr, printErr, cmdErr, calls, remote, emitted, unitCount>>

performRedeployStart(k) ==
  /\ gen = "redeploy" /\ k \in Tasks /\ task[k].pc = "start"
  /\ IF ~reachable[partitions[k].cluster]
     THEN task' = [task EXCEPT ![k].pc = "send",
                               ![k].val = getErrorRedeployResults(NotReachable, partitions[k])]
     ELSE task' = [task EXCEPT ![k].pc = "call"]
  /\ UNCHANGED <<vaultVars, localhost, overrideConfig, infos, shouldDeploy, reported, fnArgs, fnRet, gen, reachable, partitions, mainpc, started, received, allResults,
                 dispErr, printErr, cmdErr, calls, remote, emitted, unitCount>>

\* results, err := deployClient.Redeploy(client.NewRedeployPayload(applicationRefs))
performRedeployCall(k) ==
  /\ gen = "redeploy" /\ k \in Tasks /\ task[k].pc = "call"
  /\ \E answer \in Redeploy(redeployPayload(partitions[k])) :
       /\ calls' = [calls EXCEPT ![k] =
                      Append(@, NewRedeployPayload(redeployPayload(partitions[k])))]
       /\ remote' = [remote EXCEPT ![k] = answer]
       /\ task' = [task EXCEPT ![k].pc = "send",
                               ![k].val = performRedeployBundle(answer, partitions[k])]
  /\ UNCHANGED <<vaultVars, localhost, overrideConfig, infos, shouldDeploy, reported, fnArgs, fnRet, gen, reachable, partitions, mainpc, started, received, allResults,
                 dispErr, printErr, cmdErr, emitted, unitCount>>

\* allResults = append(allResults, <-partitionResult)
redeployReceive(k) ==
  /\ gen = "redeploy" /\ mainpc = "collect"
  /\ received < Cardinality(DOMAIN partitions)
  /\ k \in Tasks /\ task[k].pc = "send"
  /\ allResults' = Append(allResults, task[k].val)
  /\ received' = received + 1
  /\ emitted' = [emitted EXCEPT ![k] = Append(@, task[k].val)]
  /\ task' = [task EXCEPT ![k].pc = "done"]
  /\ UNCHANGED <<vaultVars, localhost, overrideConfig, infos, shouldDeploy, reported, fnArgs, fnRet, gen, reachable, partitions, mainpc, started, dispErr, printErr,
                 cmdErr, calls, remote, unitCount>>

\* return allResults, nil
redeployReturn ==
  /\ gen = "redeploy" /\ mainpc = "collect"
  /\ ~(received < Cardinality(DOMAIN partitions))
  /\ mainpc' = "returned"
  /\ dispErr' = nil
  /\ UNCHANGED <<vaultVars, localhost, overrideConfig, infos, shouldDeploy, reported, fnArgs, fnRet, gen, reachable, partitions, started, task, received, allResults,
                 printErr, cmdErr, calls, remote, emitted, unitCount>>

\* redeployApplicationDeployment after the dispatch, lines 117-130
redeployFinish ==
  /\ gen = "redeploy" /\ mainpc = "returned"
  /\ reported' = IF dispErr # nil THEN <<>> ELSE sortedRedeployResults(allResults)
  /\ cmdErr' = IF dispErr # nil THEN dispErr ELSE redeployExit(allResults)
  /\ mainpc' = "done"
  /\ UNCHANGED <<vaultVars, localhost, overrideConfig, infos, shouldDeploy, fnArgs, fnRet, gen, reachable, partitions, started, task, received, allResults,
                 dispErr, printErr, calls, remote, emitted, unitCount>>

NextRedeploy ==
  \/ \E k \in Keys : goPerformRedeploy(k)
  \/ redeployLoopEnd
  \/ \E k \in Keys : performRedeployStart(k)
  \/ \E k \in Keys : performRedeployCall(k)
  \/ \E k \in Keys : redeployReceive(k)
  \/ redeployReturn
  \/ redeployFinish

SpecRedeploy == InitFor("redeploy") /\ [][NextRedeploy]_vars

\* ---- generation "plan": unnamed/part_007 -----------------------------------
\* go deployToCluster(units, overrides, deployResult, deployErrors): one task
\* per cluster of the plan, over that cluster's units.
goDeployToCluster(c) ==
  /\ gen = "plan" /\ mainpc = "dispatch"
  /\ c \in Tasks \ started
  /\ started' = started \cup {c}
  /\ task' = [task EXCEPT ![c].pc = "loop"]
  /\ UNCHANGED <<vaultVars, localhost, overrideConfig, infos, shouldDeploy, reported, fnArgs, fnRet, gen, reachable, partitions, mainpc, received, allResults,
                 dispErr, printErr, cmdErr, calls, remote, emitted, unitCount>>

planLoopEnd ==
  /\ gen = "plan" /\ mainpc = "dispatch"
  /\ started = Tasks
  /\ mainpc' = "collect"
  /\ UNCHANGED <<vaultVars, localhost, overrideConfig, infos, shouldDeploy, reported, fnArgs, fnRet, gen, reachable, partitions, started, task, received, allResults,
                 dispErr, printErr, cmdErr, calls, remote, emitted, unitCount>>

\* for _, unit := range clusterUnits: the next unit in map order (any
\* order); an unreachable cluster's unit is skipped with continue.
deployToClusterNext(c) ==
  /\ gen = "plan" /\ c \in Tasks /\ task[c].pc = "loop"
  /\ \/ /\ task[c].todo = {}
        /\ task' = [task EXCEPT ![c].pc = "done"]
        /\ UNCHANGED <<vaultVars, localhost, overrideConfig, mainpc, cmdErr>>
     \/ \E u \in task[c].todo :
          \* unit.Cluster is nil: reading its Reachable field ends the process
          /\ partitions[u].cluster = nil
          /\ task' = [t \in DOMAIN task |-> [task[t] EXCEPT !.pc = "crashed"]]
          /\ mainpc' = "crashed"
          /\ cmdErr' = NilDereference
     \/ \E u \in task[c].todo :
          /\ partitions[u].cluster # nil
          /\ ~reachable[partitions[u].cluster]
          /\ task' = [task EXCEPT ![c].todo = @ \ {u}]
          /\ UNCHANGED <<vaultVars, localhost, overrideConfig, mainpc, cmdErr>>
     \/ \E u \in task[c].todo :
          /\ partitions[u].cluster # nil
          /\ reachable[partitions[u].cluster]
          /\ task' = [task EXCEPT ![c].todo = @ \ {u}, ![c].cur = u, ![c].pc = "call"]
          /\ UNCHANGED <<vaultVars, localhost, overrideConfig, mainpc, cmdErr>>
  /\ UNCHANGED <<vaultVars, localhost, overrideConfig, infos, shouldDeploy, reported, fnArgs, fnRet, gen, reachable, partitions, started, received, allResults,
                 dispErr, printErr, calls, remote, emitted, unitCount>>

\* result, err := cli.Deploy(payload): the error goes to deployErrors, the
\* result to deployResult.
deployToClusterCall(c) ==
  /\ gen = "plan" /\ c \in Tasks /\ task[c].pc = "call"
  /\ LET u == task[c].cur IN
     \E answer \in Deploy(partitions[u].apps) :
       /\ calls' = [calls EXCEPT ![u] =
                      Append(@, NewDeployPayload(partitions[u].apps, overrideConfig))]
       /\ remote' = [remote EXCEPT ![u] = answer]
       /\ IF answer.err # nil
          THEN task' = [task EXCEPT ![c].pc = "senderr", ![c].err = answer.err]
          ELSE task' = [task EXCEPT ![c].pc = "send", ![c].val = answer.result]
  /\ UNCHANGED <<vaultVars, localhost, overrideConfig, infos, shouldDeploy, reported, fnArgs, fnRet, gen, reachable, partitions, mainpc, started, received, allResults,
                 dispErr, printErr, cmdErr, emitted, unitCount>>

\* case result := <-deployResult: allResults = append(allResults, result)
planReceive(c) ==
  /\ gen = "plan" /\ mainpc = "collect"
  /\ received < unitCount
  /\ c \in Tasks /\ task[c].pc = "send"
  /\ allResults' = Append(allResults, task[c].val)
  /\ received' = received + 1
  /\ emitted' = [emitted EXCEPT ![task[c].cur] = Append(@, task[c].val)]
  /\ task' = [task EXCEPT ![c].pc = "loop"]
  /\ UNCHANGED <<vaultVars, localhost, overrideConfig, infos, shouldDeploy, reported, fnArgs, fnRet, gen, reachable, partitions, mainpc, started, dispErr, printErr,
                 cmdErr, calls, remote, unitCount>>

\* case err := <-deployErrors: return nil, err
planReceiveError(c) ==
  /\ gen = "plan" /\ mainpc = "collect"
  /\ received < unitCount
  /\ c \in Tasks /\ task[c].pc = "senderr"
  /\ allResults' = <<>>
  /\ dispErr' = task[c].err
  /\ mainpc' = "returned"
  /\ task' = [task EXCEPT ![c].pc = "loop"]
  /\ UNCHANGED <<vaultVars, localhost, overrideConfig, infos, shouldDeploy, reported, fnArgs, fnRet, gen, reachable, partitions, started, received, printErr,
                 cmdErr, calls, remote, emitted, unitCount>>

\* return allResults, nil
planReturn ==
  /\ gen = "plan" /\ mainpc = "collect"
  /\ ~(received < unitCount)
  /\ mainpc' = "returned"
  /\ dispErr' = nil
  /\ UNCHANGED <<vaultVars, localhost, overrideConfig, infos, shouldDeploy, reported, fnArgs, fnRet, gen, reachable, partitions, started, task, received, allResults,
                 printErr, cmdErr, calls, remote, emitted, unitCount>>

\* deploy of the plan generation after the dispatch, lines 202-232
planFinish ==
  /\ gen = "plan" /\ mainpc = "returned"
  /\ printErr' = IF dispErr # nil THEN "none" ELSE printDeployResult(allResults)
  /\ reported' = IF dispErr # nil THEN <<>> ELSE sortedDeployResults(allResults)
  /\ cmdErr' = IF dispErr # nil THEN dispErr ELSE printDeployResult(allResults)
  /\ mainpc' = "done"
  /\ UNCHANGED <<vaultVars, localhost, overrideConfig, infos, shouldDeploy, fnArgs, fnRet, gen, reachable, partitions, started, task, received, allResults,
                 dispErr, calls, remote, emitted, unitCount>>

NextPlan ==
  \/ \E c \in Clusters : goDeployToCluster(c)
  \/ planLoopEnd
  \/ \E c \in Clusters : deployToClusterNext(c)
  \/ \E c \in Clusters : deployToClusterCall(c)
  \/ \E c \in Clusters : planReceive(c)
  \/ \E c \in Clusters : planReceiveError(c)
  \/ planReturn
  \/ planFinish

SpecPlan == InitFor("plan") /\ [][NextPlan]_vars

\* ---- all generations -------------------------------------------------------
Next == NextDeploy \/ NextRedeploy \/ NextPlan

Spec == Init /\ [][Next]_vars

\* Every remote call returns and the scheduler lets every enabled step of
\* the command and of its goroutines run: no step of a run adds work, so
\* weak fairness of the next-state relation is what the Go scheduler gives.
FairSpecPlan == SpecPlan /\ WF_vars(NextPlan)

FairSpec == Spec /\ WF_vars(Next)

\* ---- the command up to the dispatch ----------------------------------------
\* What the user types at a confirmation prompt: yes, no, or just return.
Answers == {"y", "n", ""}

\* prompt.Confirm(message, defaultAnswer): the answer, or the default on an
\* empty one.
Confirm(answer, defaultAnswer) == IF answer = "" THEN defaultAnswer ELSE answer = "y"

\* deployConfirmation that pre-sets yes whatever the selection.
deployConfirmationDefaultYes(force, filteredDeploymentSpecs, answer) ==
  IF ~force THEN Confirm(answer, TRUE) ELSE TRUE

\* deployConfirmation: the prompt is skipped with force; its default is yes
\* only for a table of one row.
deployConfirmation(force, filteredDeploymentSpecs, answer) ==
  IF ~force THEN Confirm(answer, Len(filteredDeploymentSpecs) = 1) ELSE TRUE

\* getRedeployConfirmation
getRedeployConfirmation(force, deployInfos, answer) ==
  IF ~force THEN Confirm(answer, Len(deployInfos) = 1) ELSE TRUE

\* The --overrides values a run is given, as texts; "f:{}" is well formed.
MaxOverrides == 1
OverrideTexts == { <<"f", ":", "{", "}">>, <<"f", ":", "{">>, <<"f", "{", "}">> }
OverrideLists == UNION { [1..n -> OverrideTexts] : n \in 0..MaxOverrides }

\* json.Valid on the texts above.
jsonValid(text) == text = <<"{", "}">>

\* strings.IndexByte: the (0-based) index of the first c, or -1.
IndexByte(s, c) ==
  IF \E i \in 1..Len(s) : s[i] = c
  THEN (CHOOSE i \in 1..Len(s) : s[i] = c /\ \A j \in 1..(i - 1) : s[j] # c) - 1
  ELSE 0 - 1

\* parseOverride: file name -> json text; a text without ':' slices with
\* index -1 and panics, a text whose json part does not parse is an error.
RECURSIVE parseOverrideFrom(_, _)
parseOverrideFrom(override, returnMap) ==
  IF override = <<>> THEN [err |-> nil, returnMap |-> returnMap]
  ELSE LET indexByte == IndexByte(Head(override), ":")
           filename == SubSeq(Head(override), 1, indexByte)
           jsonOverride == SubSeq(Head(override), indexByte + 2, Len(Head(override)))
       IN IF indexByte < 0 THEN [err |-> SliceOutOfRange, returnMap |-> << >>]
          ELSE IF ~jsonValid(jsonOverride)
               THEN [err |-> "is not a valid json", returnMap |-> << >>]
               ELSE parseOverrideFrom(Tail(override),
                                      (filename :> jsonOverride) @@ returnMap)

parseOverride(override) == parseOverrideFrom(override, << >>)

\* What the resolution of the search (file names, fuzzy search, excludes,
\* deploy specs) comes back with: an error of the remote side, or the specs
\* of the applications found.
ResolveOutcomes ==
  { [err |-> TransportError, specs |-> <<>>] }
  \cup { [err |-> nil, specs |-> sel] : sel \in Selections }

\* The --cluster flag: not given, or a cluster name.
ClusterFlags == {""} \cup Clusters

\* The specs of the cluster --cluster names, all of them without the flag.
filterByCluster(deploySpecs, flagCluster) ==
  IF flagCluster = "" THEN deploySpecs
  ELSE SelectSeq(deploySpecs, LAMBDA spec : spec.ClusterName = flagCluster)

\* validateParams, then getAPIClient: the flag must name a cluster of the
\* registry, and a reachable one.
validateParams(flagCluster) ==
  IF flagCluster # "" /\ flagCluster \notin DOMAIN reachable THEN "No such cluster"
  ELSE nil

getAPIClient(overrideCluster) ==
  IF overrideCluster # "" /\ ~reachable[overrideCluster] THEN "cluster is not reachable"
  ELSE nil

\* The goroutines of a dispatch over parts, none started.
NewTasks(g, parts) ==
  [t \in TaskIds(g, parts) |->
     [pc |-> "idle", todo |-> UnitsOf(g, parts, t), cur |-> NoUnit,
      val |-> NoBundle, err |-> nil]]

\* The state a command starts in: nothing resolved, nothing asked.
InitCommand(g) ==
  /\ gen = g
  /\ \E registry \in SUBSET Clusters : reachable \in [registry -> BOOLEAN]
  /\ infos = <<>>
  /\ partitions = << >>
  /\ unitCount = 0
  /\ shouldDeploy = "none"
  /\ reported = <<>>
  /\ fnArgs = NoCall
  /\ fnRet = NoCall
  /\ mainpc = "start"
  /\ started = {}
  /\ task = << >>
  /\ received = 0
  /\ allResults = <<>>
  /\ dispErr = "none"
  /\ printErr = "none"
  /\ cmdErr = "none"
  /\ calls = << >>
  /\ remote = << >>
  /\ emitted = << >>
  /\ overrideConfig = << >>
  /\ localhost = FALSE
  /\ NoVault

\* return err before anything is dispatched
returnEarly(err) ==
  /\ cmdErr' = err
  /\ mainpc' = "exit"

\* -- cmd/deploy.go, deploy, lines 78-122 --
\* validateParams, getAPIClient, getApplications, getFilteredDeploymentSpecs
deployResolve ==
  /\ gen = "deploy" /\ mainpc = "start"
  /\ \E flagCluster \in ClusterFlags, found \in ResolveOutcomes :
       LET err == IF validateParams(flagCluster) # nil THEN validateParams(flagCluster)
                  ELSE IF getAPIClient(flagCluster) # nil THEN getAPIClient(flagCluster)
                  ELSE IF found.err # nil THEN found.err
                  ELSE IF Len(found.specs) = 0 THEN "No applications to deploy"
                  ELSE nil
       IN IF err # nil
          THEN returnEarly(err) /\ UNCHANGED infos
          ELSE /\ infos' = filterByCluster(found.specs, flagCluster)
               /\ mainpc' = "override"
               /\ UNCHANGED cmdErr
  /\ UNCHANGED <<vaultVars, localhost, overrideConfig, gen, reachable, partitions, started, task, received, allResults,
                 dispErr, printErr, calls, remote, emitted, unitCount,
                 shouldDeploy, reported, fnArgs, fnRet>>

\* overrideConfig, err := parseOverride(flagOverrides)
deployParseOverride ==
  /\ gen = "deploy" /\ mainpc = "override"
  /\ \E flagOverrides \in OverrideLists :
       IF parseOverride(flagOverrides).err # nil
       THEN returnEarly(parseOverride(flagOverrides).err) /\ UNCHANGED overrideConfig
       ELSE /\ overrideConfig' = parseOverride(flagOverrides).returnMap
            /\ mainpc' = "partition"
            /\ UNCHANGED cmdErr
  /\ UNCHANGED <<vaultVars, localhost, gen, reachable, partitions, started, task, received, allResults,
                 dispErr, printErr, calls, remote, emitted, unitCount, infos,
                 shouldDeploy, reported, fnArgs, fnRet>>

\* The dispatcher's bookkeeping for the partitions just built.
install(g, parts) ==
  /\ partitions' = parts
  /\ task' = NewTasks(g, parts)
  /\ calls' = [k \in DOMAIN parts |-> <<>>]
  /\ remote' = [k \in DOMAIN parts |-> NoAnswer]
  /\ emitted' = [k \in DOMAIN parts |-> <<>>]

\* partitions, err := createRequestPartitions(..., AO.Clusters, filteredDeploymentSpecs)
deployPartition ==
  /\ gen = "deploy" /\ mainpc = "partition"
  /\ LET made == createRequestPartitions(DOMAIN reachable, infos)
     IN IF made.err # nil
        THEN /\ returnEarly(made.err)
             /\ UNCHANGED <<vaultVars, localhost, overrideConfig, partitions, task, calls, remote, emitted>>
        ELSE /\ install("deploy", made.partitions)
             /\ mainpc' = "confirm"
             /\ UNCHANGED cmdErr
  /\ UNCHANGED <<vaultVars, localhost, overrideConfig, gen, reachable, started, received, allResults, dispErr, printErr,
                 unitCount, infos, shouldDeploy, reported, fnArgs, fnRet>>

\* if !deployConfirmation(flagNoPrompt, filteredDeploymentSpecs, out) { return ... }
deployConfirm ==
  /\ gen = "deploy" /\ mainpc = "confirm"
  /\ \E flagNoPrompt \in BOOLEAN, answer \in Answers :
       IF deployConfirmation(flagNoPrompt, infos, answer)
       THEN shouldDeploy' = "true" /\ mainpc' = "dispatch" /\ UNCHANGED cmdErr
       ELSE shouldDeploy' = "false" /\ returnEarly("No applications to deploy")
  /\ UNCHANGED <<vaultVars, localhost, overrideConfig, gen, reachable, partitions, started, task, received, allResults,
                 dispErr, printErr, calls, remote, emitted, unitCount, infos,
                 reported, fnArgs, fnRet>>

\* -- unnamed/part_005, redeployApplicationDeployment, lines 69-115 --
\* The deployed applications among the specs: any of them, in their order.
RECURSIVE SubSeqs(_)
SubSeqs(s) ==
  IF s = <<>> THEN { <<>> }
  ELSE SubSeqs(Tail(s)) \cup { <<Head(s)>> \o rest : rest \in SubSeqs(Tail(s)) }

\* validateRedeployParams, getAPIClient, service.GetApplications,
\* service.GetFilteredDeploymentSpecs, getDeployedApplications
redeployResolve ==
  /\ gen = "redeploy" /\ mainpc = "start"
  /\ \E flagCluster \in ClusterFlags, found \in ResolveOutcomes :
     \E deployInfos \in SubSeqs(filterByCluster(found.specs, flagCluster)) :
       LET err == IF validateParams(flagCluster) # nil THEN validateParams(flagCluster)
                  ELSE IF getAPIClient(flagCluster) # nil THEN getAPIClient(flagCluster)
                  ELSE IF found.err # nil THEN found.err
                  ELSE IF Len(found.specs) = 0 THEN "No applications to redeploy"
                  ELSE IF Len(deployInfos) = 0 THEN "No applications to redeploy"
                  ELSE nil
       IN IF err # nil
          THEN returnEarly(err) /\ UNCHANGED infos
          ELSE /\ infos' = deployInfos
               /\ mainpc' = "partition"
               /\ UNCHANGED cmdErr
  /\ UNCHANGED <<vaultVars, localhost, overrideConfig, gen, reachable, partitions, started, task, received, allResults,
                 dispErr, printErr, calls, remote, emitted, unitCount,
                 shouldDeploy, reported, fnArgs, fnRet>>

\* partitions, err := createDeploymentPartitions(..., AO.Clusters, deployInfos)
redeployPartition ==
  /\ gen = "redeploy" /\ mainpc = "partition"
  /\ LET made == createDeploymentPartitions(DOMAIN reachable, infos)
     IN IF made.err # nil
        THEN /\ returnEarly(made.err)
             /\ UNCHANGED <<vaultVars, localhost, overrideConfig, partitions, task, calls, remote, emitted>>
        ELSE /\ install("redeploy", made.partitions)
             /\ mainpc' = "confirm"
             /\ UNCHANGED cmdErr
  /\ UNCHANGED <<vaultVars, localhost, overrideConfig, gen, reachable, started, received, allResults, dispErr, printErr,
                 unitCount, infos, shouldDeploy, reported, fnArgs, fnRet>>

\* if !getRedeployConfirmation(flagNoPrompt, deployInfos, out) { return ... }
redeployConfirm ==
  /\ gen = "redeploy" /\ mainpc = "confirm"
  /\ \E flagNoPrompt \in BOOLEAN, answer \in Answers :
       IF getRedeployConfirmation(flagNoPrompt, infos, answer)
       THEN shouldDeploy' = "true" /\ mainpc' = "dispatch" /\ UNCHANGED cmdErr
       ELSE shouldDeploy' = "false" /\ returnEarly("No applications to redeploy")
  /\ UNCHANGED <<vaultVars, localhost, overrideConfig, gen, reachable, partitions, started, task, received, allResults,
                 dispErr, printErr, calls, remote, emitted, unitCount, infos,
                 reported, fnArgs, fnRet>>

\* -- unnamed/part_007, deploy, lines 106-200 --
\* overrides, err := parseOverride(flagOverrides)
planParseOverride ==
  /\ gen = "plan" /\ mainpc = "start"
  /\ \E flagOverrides \in OverrideLists :
       IF parseOverride(flagOverrides).err # nil
       THEN returnEarly(parseOverride(flagOverrides).err) /\ UNCHANGED overrideConfig
       ELSE /\ overrideConfig' = parseOverride(flagOverrides).returnMap
            /\ mainpc' = "resolve"
            /\ UNCHANGED cmdErr
  /\ UNCHANGED <<vaultVars, localhost, gen, reachable, partitions, started, task, received, allResults,
                 dispErr, printErr, calls, remote, emitted, unitCount, infos,
                 shouldDeploy, reported, fnArgs, fnRet>>

\* The --cluster check, the search with its excludes, --version (which takes
\* one application only and patches the file before the deploy), the deploy
\* specs and their filter by cluster.
planResolve ==
  /\ gen = "plan" /\ mainpc = "resolve"
  /\ \E flagCluster \in ClusterFlags, found \in ResolveOutcomes, flagVersion \in BOOLEAN :
       LET err == IF validateParams(flagCluster) # nil THEN validateParams(flagCluster)
                  ELSE IF getAPIClient(flagCluster) # nil THEN getAPIClient(flagCluster)
                  ELSE IF found.err # nil THEN found.err
                  ELSE IF Len(found.specs) = 0 THEN "No applications to deploy"
                  ELSE IF flagVersion /\ Len(found.specs) > 1
                       THEN "Deploy with version does only support one application"
                  ELSE nil
       IN IF err # nil
          THEN returnEarly(err) /\ UNCHANGED infos
          ELSE /\ infos' = filterByCluster(found.specs, flagCluster)
               /\ mainpc' = "confirm"
               /\ UNCHANGED cmdErr
  /\ UNCHANGED <<vaultVars, localhost, overrideConfig, gen, reachable, partitions, started, task, received, allResults,
                 dispErr, printErr, calls, remote, emitted, unitCount,
                 shouldDeploy, reported, fnArgs, fnRet>>

\* shouldDeploy, lines 189-198: the prompt unless --no-prompt
planConfirm ==
  /\ gen = "plan" /\ mainpc = "confirm"
  /\ \E flagNoPrompt \in BOOLEAN, answer \in Answers :
       IF (IF ~flagNoPrompt THEN Confirm(answer, Len(infos) = 1) ELSE TRUE)
       THEN shouldDeploy' = "true" /\ mainpc' = "partition" /\ UNCHANGED cmdErr
       ELSE shouldDeploy' = "false" /\ returnEarly("No applications to deploy")
  /\ UNCHANGED <<vaultVars, localhost, overrideConfig, gen, reachable, partitions, started, task, received, allResults,
                 dispErr, printErr, calls, remote, emitted, unitCount, infos,
                 reported, fnArgs, fnRet>>

\* deploymentPlan := createDeploymentPlan(filteredDeploymentSpecs, ...)
planCreate ==
  /\ gen = "plan" /\ mainpc = "partition"
  /\ install("plan", createDeploymentPlan(infos).DeploymentUnits)
  /\ unitCount' = createDeploymentPlan(infos).UnitCount
  /\ mainpc' = "dispatch"
  /\ UNCHANGED <<vaultVars, localhost, overrideConfig, gen, reachable, started, received, allResults, dispErr, printErr,
                 cmdErr, infos, shouldDeploy, reported, fnArgs, fnRet>>

NextCommand ==
  \/ deployResolve
  \/ deployParseOverride
  \/ deployPartition
  \/ deployConfirm
  \/ redeployResolve
  \/ redeployPartition
  \/ redeployConfirm
  \/ planParseOverride
  \/ planResolve
  \/ planConfirm
  \/ planCreate
  \/ NextDeploy
  \/ NextRedeploy
  \/ NextPlan

\* The three commands, from their first line on.
SpecCommand == (\E g \in Generations : InitCommand(g)) /\ [][NextCommand]_vars

SpecCommandPlan ==
  InitCommand("plan")
  /\ [][planParseOverride \/ planResolve \/ planConfirm \/ planCreate \/ NextPlan]_vars


\* -- the partitioners on their own --
\* The partitioner of each generation applied to any list of up to MaxSpecs
\* specs, under any registry.
MaxSpecs == 3

InitPartition(g) ==
  /\ gen = g
  /\ \E registry \in SUBSET Clusters : reachable \in [registry -> BOOLEAN]
  /\ infos \in SelectionsOf(1..MaxSpecs)
  /\ infos # <<>>
  /\ partitions = << >>
  /\ unitCount = 0
  /\ shouldDeploy = IF g = "plan" THEN "true" ELSE "none"
  /\ reported = <<>>
  /\ fnArgs = NoCall
  /\ fnRet = NoCall
  /\ mainpc = "partition"
  /\ started = {}
  /\ task = << >>
  /\ received = 0
  /\ allResults = <<>>
  /\ dispErr = "none"
  /\ printErr = "none"
  /\ cmdErr = "none"
  /\ calls = << >>
  /\ remote = << >>
  /\ emitted = << >>
  /\ overrideConfig = << >>
  /\ localhost = FALSE
  /\ NoVault

SpecPartition ==
  (\E g \in Generations : InitPartition(g))
  /\ [][deployPartition \/ redeployPartition \/ planCreate]_vars

SpecPartitionPlan == InitPartition("plan") /\ [][planCreate]_vars

\* ---- generation "legacy": unnamed/part_008 ---------------------------------
\* Deploy of the oldest generation, for a run without --cluster and without
\* --version: the whole payload goes to every reachable cluster of the
\* registry, one goroutine per cluster; a unit <<cluster, "">> stands for the
\* payload sent to that cluster.
LegacyKeys == Clusters \X {""}

\* appsToDeploy: the applications the search (and the selection prompts)
\* left, as a set turned into a list.
LegacySelections ==
  { [i \in 1..Cardinality(S) |-> [app |-> SetToSeq(S)[i]]] : S \in SUBSET Apps }

\* api.Deploy of this generation returns the list of results itself.
LegacyDeploy(applicationList) ==
  { [err |-> TransportError, result |-> <<>>] }
  \cup { [err |-> nil, result |-> rs] : rs \in DeployEntrySeqs(applicationList) }

\* The payload for each reachable cluster of the registry.
legacyUnits(clusters, appsToDeploy) ==
  [k \in {<<c, "">> : c \in {x \in DOMAIN clusters : clusters[x]}} |->
     [cluster |-> k[1], namespace |-> "",
      apps |-> [i \in 1..Len(appsToDeploy) |-> appsToDeploy[i].app]]]

\* overrides, err := parseOverride(overrides)
legacyParseOverride ==
  /\ gen = "legacy" /\ mainpc = "start"
  /\ \E flagOverrides \in OverrideLists :
       IF parseOverride(flagOverrides).err # nil
       THEN returnEarly(parseOverride(flagOverrides).err) /\ UNCHANGED overrideConfig
       ELSE /\ overrideConfig' = parseOverride(flagOverrides).returnMap
            /\ mainpc' = "resolve"
            /\ UNCHANGED cmdErr
  /\ UNCHANGED <<vaultVars, localhost, gen, reachable, partitions, started, task, received, allResults,
                 dispErr, printErr, calls, remote, emitted, unitCount, infos,
                 shouldDeploy, reported, fnArgs, fnRet>>

\* api.GetFileNames, the search of every argument, the unique applications;
\* the error made for an empty list (line 142) is not returned.
legacyResolve ==
  /\ gen = "legacy" /\ mainpc = "resolve"
  /\ \/ returnEarly(TransportError) /\ UNCHANGED infos
     \/ \E appsToDeploy \in LegacySelections :
          /\ infos' = appsToDeploy
          /\ mainpc' = "confirm"
          /\ UNCHANGED cmdErr
  /\ UNCHANGED <<vaultVars, localhost, overrideConfig, gen, reachable, partitions, started, task, received, allResults,
                 dispErr, printErr, calls, remote, emitted, unitCount,
                 shouldDeploy, reported, fnArgs, fnRet>>

\* if !noPrompt { shouldDeploy := prompt.Confirm(message); if !shouldDeploy
\* { return nil } }: this prompt.Confirm takes no default, an empty answer
\* is whatever it makes of it.
legacyConfirm ==
  /\ gen = "legacy" /\ mainpc = "confirm"
  /\ \E noPrompt \in BOOLEAN, answer \in Answers, onEmpty \in BOOLEAN :
       IF noPrompt \/ Confirm(answer, onEmpty)
       THEN shouldDeploy' = "true" /\ mainpc' = "payload" /\ UNCHANGED cmdErr
       ELSE shouldDeploy' = "false" /\ returnEarly(nil)
  /\ UNCHANGED <<vaultVars, localhost, overrideConfig, gen, reachable, partitions, started, task, received, allResults,
                 dispErr, printErr, calls, remote, emitted, unitCount, infos,
                 reported, fnArgs, fnRet>>

\* payload, err := client.NewDeployPayload(appsToDeploy, overrides), and the
\* count of the reachable clusters the loop of deployToReachableClusters makes
legacyPayload ==
  /\ gen = "legacy" /\ mainpc = "payload"
  /\ \/ /\ returnEarly("payload error")
        /\ UNCHANGED <<vaultVars, localhost, overrideConfig, partitions, task, calls, remote, emitted, unitCount>>
     \/ /\ install("legacy", legacyUnits(reachable, infos))
        /\ unitCount' = Cardinality({c \in DOMAIN reachable : reachable[c]})
        /\ mainpc' = "dispatch"
        /\ UNCHANGED cmdErr
  /\ UNCHANGED <<vaultVars, localhost, overrideConfig, gen, reachable, started, received, allResults, dispErr, printErr,
                 infos, shouldDeploy, reported, fnArgs, fnRet>>

\* go func() { result, err := cli.Deploy(payload) ... }()
goLegacyDeploy(k) ==
  /\ gen = "legacy" /\ mainpc = "dispatch"
  /\ k \in Tasks \ started
  /\ started' = started \cup {k}
  /\ task' = [task EXCEPT ![k].pc = "call"]
  /\ UNCHANGED <<vaultVars, localhost, overrideConfig, gen, reachable, partitions, mainpc, received, allResults, dispErr,
                 printErr, cmdErr, calls, remote, emitted, unitCount, infos,
                 shouldDeploy, reported, fnArgs, fnRet>>

legacyLoopEnd ==
  /\ gen = "legacy" /\ mainpc = "dispatch"
  /\ started = Tasks
  /\ mainpc' = "collect"
  /\ UNCHANGED <<vaultVars, localhost, overrideConfig, gen, reachable, partitions, started, task, received, allResults,
                 dispErr, printErr, cmdErr, calls, remote, emitted, unitCount,
                 infos, shouldDeploy, reported, fnArgs, fnRet>>

\* result, err := cli.Deploy(payload): the error goes to deployErrors, the
\* result to deployResult
legacyDeployCall(k) ==
  /\ gen = "legacy" /\ k \in Tasks /\ task[k].pc = "call"
  /\ \E answer \in LegacyDeploy(partitions[k].apps) :
       /\ calls' = [calls EXCEPT ![k] =
                      Append(@, NewDeployPayload(partitions[k].apps, overrideConfig))]
       /\ remote' = [remote EXCEPT ![k] = answer]
       /\ IF answer.err # nil
          THEN task' = [task EXCEPT ![k].pc = "senderr", ![k].err = answer.err]
          ELSE task' = [task EXCEPT ![k].pc = "send", ![k].val = answer.result]
  /\ UNCHANGED <<vaultVars, localhost, overrideConfig, gen, reachable, partitions, mainpc, started, received, allResults,
                 dispErr, printErr, cmdErr, emitted, unitCount, infos,
                 shouldDeploy, reported, fnArgs, fnRet>>

\* case result := <-deployResult: allResults = append(allResults, result...)
legacyReceive(k) ==
  /\ gen = "legacy" /\ mainpc = "collect"
  /\ received < unitCount
  /\ k \in Tasks /\ task[k].pc = "send"
  /\ allResults' = allResults \o task[k].val
  /\ received' = received + 1
  /\ emitted' = [emitted EXCEPT ![k] = Append(@, task[k].val)]
  /\ task' = [task EXCEPT ![k].pc = "done"]
  /\ UNCHANGED <<vaultVars, localhost, overrideConfig, gen, reachable, partitions, mainpc, started, dispErr, printErr,
                 cmdErr, calls, remote, unitCount, infos, shouldDeploy, reported,
                 fnArgs, fnRet>>

\* case err := <-deployErrors: fmt.Println(err)
legacyReceiveError(k) ==
  /\ gen = "legacy" /\ mainpc = "collect"
  /\ received < unitCount
  /\ k \in Tasks /\ task[k].pc = "senderr"
  /\ received' = received + 1
  /\ task' = [task EXCEPT ![k].pc = "done"]
  /\ UNCHANGED <<vaultVars, localhost, overrideConfig, gen, reachable, partitions, mainpc, started, allResults, dispErr,
                 printErr, cmdErr, calls, remote, emitted, unitCount, infos,
                 shouldDeploy, reported, fnArgs, fnRet>>

\* return allResults
legacyReturn ==
  /\ gen = "legacy" /\ mainpc = "collect"
  /\ ~(received < unitCount)
  /\ mainpc' = "returned"
  /\ dispErr' = nil
  /\ UNCHANGED <<vaultVars, localhost, overrideConfig, gen, reachable, partitions, started, task, received, allResults,
                 printErr, cmdErr, calls, remote, emitted, unitCount, infos,
                 shouldDeploy, reported, fnArgs, fnRet>>

\* sort.Slice(result, ...); PrintDeployResults(result); return nil
legacyFinish ==
  /\ gen = "legacy" /\ mainpc = "returned"
  /\ reported' = sortSlice(allResults)
  /\ cmdErr' = nil
  /\ mainpc' = "done"
  /\ UNCHANGED <<vaultVars, localhost, overrideConfig, gen, reachable, partitions, started, task, received, allResults,
                 dispErr, printErr, calls, remote, emitted, unitCount, infos,
                 shouldDeploy, fnArgs, fnRet>>

NextLegacy ==
  \/ legacyParseOverride
  \/ legacyResolve
  \/ legacyConfirm
  \/ legacyPayload
  \/ \E k \in LegacyKeys : goLegacyDeploy(k)
  \/ legacyLoopEnd
  \/ \E k \in LegacyKeys : legacyDeployCall(k)
  \/ \E k \in LegacyKeys : legacyReceive(k)
  \/ \E k \in LegacyKeys : legacyReceiveError(k)
  \/ legacyReturn
  \/ legacyFinish

SpecCommandLegacy == InitCommand("legacy") /\ [][NextLegacy]_vars

\* ---- library functions applied on their own ------------------------------
\* No deploy or redeploy command runs.
NoDispatch ==
  /\ gen = "none"
  /\ reachable = << >>
  /\ infos = <<>>
  /\ partitions = << >>
  /\ unitCount = 0
  /\ shouldDeploy = "none"
  /\ reported = <<>>
  /\ mainpc = "none"
  /\ started = {}
  /\ task = << >>
  /\ received = 0
  /\ allResults = <<>>
  /\ dispErr = "none"
  /\ printErr = "none"
  /\ cmdErr = "none"
  /\ calls = << >>
  /\ remote = << >>
  /\ emitted = << >>
  /\ overrideConfig = << >>
  /\ localhost = FALSE

\* No command runs.
NoCommand == NoDispatch /\ NoVault

commandVars == <<gen, reachable, partitions, mainpc, started, task, received,
                 allResults, dispErr, printErr, cmdErr, calls, remote, emitted,
                 unitCount, infos, shouldDeploy, reported>>

\* -- the aggregators' sort --
\* The bundles of a dispatch over up to MaxResults applications, whose remote
\* calls all failed or all succeeded, in two of their arrival orders.
MaxResults == 3

Perms(S) == { s \in [1..Cardinality(S) -> S] : Range(s) = S }

OkDeployAnswer(applicationList) ==
  [err |-> nil,
   result |-> Results("", TRUE,
                [i \in 1..Len(applicationList) |->
                   [app |-> applicationList[i], DeployId |-> "d", Ignored |-> FALSE,
                    Success |-> TRUE, Reason |-> ""]])]

OkRedeployAnswer(applicationRefs) ==
  [err |-> nil,
   result |-> Results("", TRUE,
                [i \in 1..Len(applicationRefs) |->
                   [app |-> applicationRefs[i], Success |-> TRUE, Reason |-> ""]])]

FailedAnswer == [err |-> TransportError, result |-> NoBundle]

DeployBundles(parts, ok) ==
  { performDeployBundle(IF ok THEN OkDeployAnswer(deployPayload(parts[k])) ELSE FailedAnswer,
                        parts[k]) : k \in DOMAIN parts }

RedeployBundles(parts, ok) ==
  { performRedeployBundle(IF ok THEN OkRedeployAnswer(redeployPayload(parts[k]))
                          ELSE FailedAnswer, parts[k]) : k \in DOMAIN parts }

AggregatorCalls ==
  UNION {
    { [fn |-> "printDeployResult", result |-> r, other |-> o] :
        r \in Perms(DeployBundles(createRequestPartitions(Clusters, sel).partitions, ok)),
        o \in Perms(DeployBundles(createRequestPartitions(Clusters, sel).partitions, ok)) }
    \cup
    { [fn |-> "getRedeployResultTableContent", result |-> r, other |-> o] :
        r \in Perms(RedeployBundles(createDeploymentPartitions(Clusters, sel).partitions, ok)),
        o \in Perms(RedeployBundles(createDeploymentPartitions(Clusters, sel).partitions, ok)) }
    : sel \in SelectionsOf(1..MaxResults), ok \in BOOLEAN }

InitAggregate ==
  /\ NoCommand
  /\ fnArgs \in AggregatorCalls
  /\ fnRet = NoCall

\* printDeployResult, lines 240-254, on each of the two arrival orders
applyPrintDeployResult ==
  /\ fnArgs.fn = "printDeployResult" /\ fnRet = NoCall
  /\ fnRet' = [fn |-> fnArgs.fn,
               flat |-> flattenDeployResults(fnArgs.result),
               sorted |-> sortedDeployResults(fnArgs.result),
               sortedOther |-> sortedDeployResults(fnArgs.other)]
  /\ UNCHANGED <<vaultVars, localhost, overrideConfig, commandVars, fnArgs>>

\* getRedeployResultTableContent, lines 241-269, on each of the two orders
applyGetRedeployResultTableContent ==
  /\ fnArgs.fn = "getRedeployResultTableContent" /\ fnRet = NoCall
  /\ fnRet' = [fn |-> fnArgs.fn,
               flat |-> flattenRedeployResults(fnArgs.result),
               sorted |-> sortedRedeployResults(fnArgs.result),
               sortedOther |-> sortedRedeployResults(fnArgs.other)]
  /\ UNCHANGED <<vaultVars, localhost, overrideConfig, commandVars, fnArgs>>

SpecAggregate ==
  InitAggregate /\ [][applyPrintDeployResult \/ applyGetRedeployResultTableContent]_vars

\* -- the resolvers --
\* Names and search terms are texts: sequences of characters.
foo == <<"f", "o", "o">>
boo == <<"b", "o", "o">>
bar == <<"b", "a", "r">>
foobar == <<"f", "o", "o", "b", "a", "r">>
Candidates == {foo, boo, bar, foobar}

\* The pools: lists of up to MaxPool different candidates.
MaxPool == 3
Pools ==
  UNION { { pool \in [1..n -> Candidates] :
              \A i, j \in 1..n : i # j => pool[i] # pool[j] } : n \in 0..MaxPool }

\* The search terms: every piece of a candidate, and one that is in none.
SearchTerms ==
  (UNION { { SubSeq(c, i, j) : i \in 1..Len(c), j \in 1..Len(c) } : c \in Candidates }
     \ { <<>> })
  \cup { <<"x">> }

\* The nil error of the functions whose errors carry what they matched.
noError == [msg |-> nil]

\* strings.Contains(s, substr)
Contains(s, substr) ==
  \E i \in 1..(Len(s) + 1) :
    /\ i + Len(substr) - 1 <= Len(s)
    /\ SubSeq(s, i, i + Len(substr) - 1) = substr

\* getFuzzyApp without its first loop, the check for an exact match.
RECURSIVE getFuzzyAppScan(_, _, _)
getFuzzyAppScan(arg, legalAppList, app) ==
  IF legalAppList = <<>> THEN [app |-> app, err |-> noError]
  ELSE IF Contains(Head(legalAppList), arg)
       THEN IF app # <<>>
            THEN [app |-> <<>>,
                  err |-> [msg |-> "Not a unique application identifier",
                           matching |-> <<app, Head(legalAppList)>>]]
            ELSE getFuzzyAppScan(arg, Tail(legalAppList), Head(legalAppList))
       ELSE getFuzzyAppScan(arg, Tail(legalAppList), app)

getFuzzyAppWithoutExactMatch(arg, legalAppList) ==
  getFuzzyAppScan(arg, legalAppList, <<>>)

\* getFuzzyApp: the argument itself when the list holds it; otherwise the one
\* application whose name contains it, "" for none, an error at the second.
getFuzzyApp(arg, legalAppList) ==
  IF \E i \in 1..Len(legalAppList) : legalAppList[i] = arg
  THEN [app |-> arg, err |-> noError]
  ELSE getFuzzyAppScan(arg, legalAppList, <<>>)

\* FindMatches(search, items, withSuffix): the item equal to the search when
\* there is one, otherwise every item that contains it, in the items' order.
FindMatches(search, items) ==
  IF \E i \in 1..Len(items) : items[i] = search THEN <<search>>
  ELSE SelectSeq(items, LAMBDA item : Contains(item, search))

\* EditFile, lines 58-65, with the first match taken when there are several.
EditFileTakingTheFirst(search, fileNames) ==
  LET matches == FindMatches(search, fileNames)
  IN IF Len(matches) = 0 THEN [fileName |-> <<>>, err |-> [msg |-> "No matches"]]
     ELSE [fileName |-> matches[1], err |-> noError]

\* EditFile, lines 58-65: the file the search names, or the error.
EditFile(search, fileNames) ==
  LET matches == FindMatches(search, fileNames)
  IN IF Len(matches) = 0 THEN [fileName |-> <<>>, err |-> [msg |-> "No matches"]]
     ELSE IF Len(matches) > 1
          THEN [fileName |-> <<>>,
                err |-> [msg |-> "Search matched more than one file", matches |-> matches]]
          ELSE [fileName |-> matches[1], err |-> noError]

\* sort.Strings: byte order of the characters, a prefix before its extensions.
CharsAscending == <<"a", "b", "f", "o", "r", "x">>
CharRank(c) == CHOOSE i \in DOMAIN CharsAscending : CharsAscending[i] = c

RECURSIVE StringLess(_, _)
StringLess(a, b) ==
  IF b = <<>> THEN FALSE
  ELSE IF a = <<>> THEN TRUE
  ELSE IF Head(a) # Head(b) THEN CharRank(Head(a)) < CharRank(Head(b))
  ELSE StringLess(Tail(a), Tail(b))

RECURSIVE sortStrings(_)
sortStrings(S) ==
  IF S = {} THEN <<>>
  ELSE LET m == CHOOSE x \in S : \A y \in S \ {x} : StringLess(x, y)
       IN <<m>> \o sortStrings(S \ {m})

\* SelectOne: no match is an error; one match is the selection; of several,
\* sorted, the user selects one at the prompt, or nothing ("").
SelectOne(search, items, selection) ==
  LET matches == sortStrings(Range(FindMatches(search, items)))
      selected == IF Len(matches) > 1 THEN selection ELSE matches[1]
  IN IF Len(matches) = 0
     THEN [selected |-> <<>>, offered |-> <<>>, err |-> [msg |-> "No matches"]]
     ELSE IF selected = <<>>
          THEN [selected |-> <<>>, offered |-> matches, err |-> [msg |-> "Nothing selected"]]
          ELSE [selected |-> selected,
                offered |-> IF Len(matches) > 1 THEN matches ELSE <<>>, err |-> noError]

InitResolver ==
  /\ NoCommand
  /\ fnArgs \in { [fn |-> f, search |-> t, pool |-> q] :
                    f \in {"getFuzzyApp", "EditFile", "SelectOne"},
                    t \in SearchTerms, q \in Pools }
  /\ fnRet = NoCall

applyGetFuzzyApp ==
  /\ fnArgs.fn = "getFuzzyApp" /\ fnRet = NoCall
  /\ fnRet' = [fn |-> fnArgs.fn, ret |-> getFuzzyApp(fnArgs.search, fnArgs.pool)]
  /\ UNCHANGED <<vaultVars, localhost, overrideConfig, commandVars, fnArgs>>

applyEditFile ==
  /\ fnArgs.fn = "EditFile" /\ fnRet = NoCall
  /\ fnRet' = [fn |-> fnArgs.fn, ret |-> EditFile(fnArgs.search, fnArgs.pool)]
  /\ UNCHANGED <<vaultVars, localhost, overrideConfig, commandVars, fnArgs>>

\* prompt.Select returns one of the options, or "" when none is taken
applySelectOne ==
  /\ fnArgs.fn = "SelectOne" /\ fnRet = NoCall
  /\ \E selection \in Range(FindMatches(fnArgs.search, fnArgs.pool)) \cup {<<>>} :
       fnRet' = [fn |-> fnArgs.fn, ret |-> SelectOne(fnArgs.search, fnArgs.pool, selection)]
  /\ UNCHANGED <<vaultVars, localhost, overrideConfig, commandVars, fnArgs>>

SpecResolver ==
  InitResolver /\ [][applyGetFuzzyApp \/ applyEditFile \/ applySelectOne]_vars

\* -- the exclude filter --
\* Application ids env/app and exclude expressions, as texts; "(" does not
\* compile.
ExcludeApps == { <<"f", "/", "b">>, <<"f", "/", "z">>, <<"r", "/", "b">> }
ExcludeExpressions ==
  { <<".", "*", "/", "b">>, <<"r", "/", ".", "*">>, <<"z">>, <<"(">> }

MaxExcludes == 2

ApplicationLists ==
  UNION { { l \in [1..n -> ExcludeApps] : \A i, j \in 1..n : i # j => l[i] # l[j] }
          : n \in 0..Cardinality(ExcludeApps) }

ExpressionLists == UNION { [1..n -> ExcludeExpressions] : n \in 0..MaxExcludes }

\* The program regexp.Compile makes of an expression of literals, "." and
\* ".*": one step per piece.
RECURSIVE compileSteps(_)
compileSteps(expr) ==
  IF expr = <<>> THEN <<>>
  ELSE IF Len(expr) >= 2 /\ expr[1] = "." /\ expr[2] = "*"
       THEN <<"any*">> \o compileSteps(SubSeq(expr, 3, Len(expr)))
       ELSE IF expr[1] = "."
            THEN <<"any">> \o compileSteps(Tail(expr))
            ELSE <<expr[1]>> \o compileSteps(Tail(expr))

\* regexp.Compile: an unclosed group is an error.
Compile(expr) ==
  IF \E i \in 1..Len(expr) : expr[i] = "("
  THEN [err |-> "error parsing regexp: missing closing )", r |-> <<>>]
  ELSE [err |-> nil, r |-> compileSteps(expr)]

\* The steps r match a prefix of s.
RECURSIVE matchPrefix(_, _)
matchPrefix(r, s) ==
  IF r = <<>> THEN TRUE
  ELSE IF Head(r) = "any*"
       THEN \E k \in 0..Len(s) : matchPrefix(Tail(r), SubSeq(s, k + 1, Len(s)))
       ELSE /\ s # <<>>
            /\ (Head(r) = "any" \/ Head(r) = Head(s))
            /\ matchPrefix(Tail(r), Tail(s))

\* r.MatchString(s): the expression matches somewhere in s.
MatchString(r, s) == \E k \in 0..Len(s) : matchPrefix(r, SubSeq(s, k + 1, Len(s)))

\* The inner loop of filterExcludes: tmp := apps[:0] shares the array of
\* apps; element i is read, then written at position w when it does not
\* match. The result is the first w elements.
RECURSIVE filterInto(_, _, _, _)
filterInto(apps, i, w, r) ==
  IF i > Len(apps) THEN SubSeq(apps, 1, w)
  ELSE IF ~MatchString(r, apps[i])
       THEN filterInto([apps EXCEPT ![w + 1] = apps[i]], i + 1, w + 1, r)
       ELSE filterInto(apps, i + 1, w, r)

RECURSIVE filterExcludesFrom(_, _)
filterExcludesFrom(expressions, apps) ==
  IF expressions = <<>> THEN [apps |-> apps, err |-> nil]
  ELSE IF Compile(Head(expressions)).err # nil
       THEN [apps |-> <<>>, err |-> Compile(Head(expressions)).err]
       ELSE filterExcludesFrom(Tail(expressions),
                               filterInto(apps, 1, 0, Compile(Head(expressions)).r))

\* filterExcludes that returns after its first expression.
filterExcludesFirstExpressionOnly(expressions, applications) ==
  filterExcludesFrom(IF expressions = <<>> THEN <<>> ELSE <<Head(expressions)>>,
                     applications)

\* filterExcludes: a copy of the applications, filtered by each expression
\* in turn; nil and the error at an expression that does not compile.
filterExcludes(expressions, applications) ==
  filterExcludesFrom(expressions, applications)

InitExcludes ==
  /\ NoCommand
  /\ fnArgs \in { [fn |-> "filterExcludes", expressions |-> e, applications |-> a, extra |-> x] :
                    e \in ExpressionLists, a \in ApplicationLists, x \in ExcludeExpressions }
  /\ fnRet = NoCall

\* filterExcludes on the expressions, and on the expressions with one more
applyFilterExcludes ==
  /\ fnArgs.fn = "filterExcludes" /\ fnRet = NoCall
  /\ fnRet' = [fn |-> fnArgs.fn,
               ret |-> filterExcludes(fnArgs.expressions, fnArgs.applications),
               more |-> filterExcludes(Append(fnArgs.expressions, fnArgs.extra),
                                       fnArgs.applications)]
  /\ UNCHANGED <<vaultVars, localhost, overrideConfig, commandVars, fnArgs>>

SpecExcludes == InitExcludes /\ [][applyFilterExcludes]_vars

\* -- parseOverride on its own --
\* --overrides values: a file name, a ':' or none, and a json text or not.
OverrideFiles == { <<>>, <<"f">>, <<"f", "/", "g">>, <<"g">> }
OverrideSeparators == { <<>>, <<":">> }
OverrideJsons == { <<"{", "}">>, <<"{">>, <<>>, <<"{", "}", ":">> }
OverrideArguments ==
  { file \o sep \o json :
      file \in OverrideFiles, sep \in OverrideSeparators, json \in OverrideJsons }

MaxOverrideArguments == 2

InitOverrides ==
  /\ NoCommand
  /\ fnArgs \in { [fn |-> "parseOverride", override |-> o] :
                    o \in UNION { [1..n -> OverrideArguments] : n \in 0..MaxOverrideArguments } }
  /\ fnRet = NoCall

applyParseOverride ==
  /\ fnArgs.fn = "parseOverride" /\ fnRet = NoCall
  /\ fnRet' = [fn |-> fnArgs.fn, ret |-> parseOverride(fnArgs.override)]
  /\ UNCHANGED <<vaultVars, localhost, overrideConfig, commandVars, fnArgs>>

SpecOverrides == InitOverrides /\ [][applyParseOverride]_vars

\* -- the confirmation gates on their own --
\* if !force { ... prompt.Confirm ... }: the gate asks the user
deployConfirmationAsks(force) == ~force

getRedeployConfirmationAsks(force) == ~force

InitConfirm ==
  /\ NoCommand
  /\ fnArgs \in { [fn |-> f, force |-> force, specs |-> specs, answer |-> answer] :
                    f \in {"deployConfirmation", "getRedeployConfirmation"},
                    force \in BOOLEAN, specs \in Selections, answer \in Answers }
  /\ fnRet = NoCall

applyDeployConfirmation ==
  /\ fnArgs.fn = "deployConfirmation" /\ fnRet = NoCall
  /\ fnRet' = [fn |-> fnArgs.fn,
               asked |-> deployConfirmationAsks(fnArgs.force),
               ret |-> deployConfirmation(fnArgs.force, fnArgs.specs, fnArgs.answer)]
  /\ UNCHANGED <<vaultVars, localhost, overrideConfig, commandVars, fnArgs>>

applyGetRedeployConfirmation ==
  /\ fnArgs.fn = "getRedeployConfirmation" /\ fnRet = NoCall
  /\ fnRet' = [fn |-> fnArgs.fn,
               asked |-> getRedeployConfirmationAsks(fnArgs.force),
               ret |-> getRedeployConfirmation(fnArgs.force, fnArgs.specs, fnArgs.answer)]
  /\ UNCHANGED <<vaultVars, localhost, overrideConfig, commandVars, fnArgs>>

SpecConfirm ==
  InitConfirm /\ [][applyDeployConfirmation \/ applyGetRedeployConfirmation]_vars

\* -- a run with a mixed selection --
\* foo (1) and bar (2) on east/dev, baz (3) on west/dev; east is reachable,
\* west is not.
MixedSelection ==
  << [app |-> 1, ClusterName |-> "east", Namespace |-> "dev"],
     [app |-> 2, ClusterName |-> "east", Namespace |-> "dev"],
     [app |-> 3, ClusterName |-> "west", Namespace |-> "dev"] >>

MixedReachable == [c \in Clusters |-> c = "east"]

\* The dispatch of the mixed selection, confirmed, about to start.
InitEndToEnd(g) ==
  /\ gen = g
  /\ reachable = MixedReachable
  /\ infos = MixedSelection
  /\ partitions = PartitionsOf(g, infos)
  /\ unitCount = IF g = "plan" THEN createDeploymentPlan(infos).UnitCount ELSE 0
  /\ shouldDeploy = "true"
  /\ reported = <<>>
  /\ fnArgs = NoCall
  /\ fnRet = NoCall
  /\ mainpc = "dispatch"
  /\ started = {}
  /\ task = NewTasks(g, partitions)
  /\ received = 0
  /\ allResults = <<>>
  /\ dispErr = "none"
  /\ printErr = "none"
  /\ cmdErr = "none"
  /\ calls = [k \in DOMAIN partitions |-> <<>>]
  /\ remote = [k \in DOMAIN partitions |-> NoAnswer]
  /\ emitted = [k \in DOMAIN partitions |-> <<>>]
  /\ overrideConfig = << >>
  /\ localhost = FALSE
  /\ NoVault

SpecEndToEndDeploy == InitEndToEnd("deploy") /\ [][NextDeploy]_vars

SpecEndToEndPlan == InitEndToEnd("plan") /\ [][NextPlan]_vars

\* -- client.Secrets --
\* encoding/base64, StdEncoding: the alphabet and the padding character.
Base64Alphabet ==
  << "A", "B", "C", "D", "E", "F", "G", "H", "I", "J", "K", "L", "M", "N", "O", "P",
     "Q", "R", "S", "T", "U", "V", "W", "X", "Y", "Z", "a", "b", "c", "d", "e", "f",
     "g", "h", "i", "j", "k", "l", "m", "n", "o", "p", "q", "r", "s", "t", "u", "v",
     "w", "x", "y", "z", "0", "1", "2", "3", "4", "5", "6", "7", "8", "9", "+", "/" >>

CorruptInput == "illegal base64 data"

\* The character of a 6-bit value.
encodeChar(v) == Base64Alphabet[(v % 64) + 1]

\* EncodeToString of RawStdEncoding: no padding.
RECURSIVE EncodeToStringWithoutPadding(_)
EncodeToStringWithoutPadding(src) ==
  IF Len(src) = 0 THEN <<>>
  ELSE IF Len(src) = 1
  THEN LET val == src[1] * 65536
       IN << encodeChar(val \div 262144), encodeChar(val \div 4096) >>
  ELSE IF Len(src) = 2
  THEN LET val == src[1] * 65536 + src[2] * 256
       IN << encodeChar(val \div 262144), encodeChar(val \div 4096),
             encodeChar(val \div 64) >>
  ELSE LET val == src[1] * 65536 + src[2] * 256 + src[3]
       IN << encodeChar(val \div 262144), encodeChar(val \div 4096),
             encodeChar(val \div 64), encodeChar(val) >>
          \o EncodeToStringWithoutPadding(SubSeq(src, 4, Len(src)))

\* base64.StdEncoding.EncodeToString: three bytes make four characters, a
\* remainder of one or two bytes is padded with "=".
RECURSIVE EncodeToString(_)
EncodeToString(src) ==
  IF Len(src) = 0 THEN <<>>
  ELSE IF Len(src) = 1
  THEN LET val == src[1] * 65536
       IN << encodeChar(val \div 262144), encodeChar(val \div 4096), "=", "=" >>
  ELSE IF Len(src) = 2
  THEN LET val == src[1] * 65536 + src[2] * 256
       IN << encodeChar(val \div 262144), encodeChar(val \div 4096),
             encodeChar(val \div 64), "=" >>
  ELSE LET val == src[1] * 65536 + src[2] * 256 + src[3]
       IN << encodeChar(val \div 262144), encodeChar(val \div 4096),
             encodeChar(val \div 64), encodeChar(val) >>
          \o EncodeToString(SubSeq(src, 4, Len(src)))

\* The 6-bit value of a character of the alphabet.
decodeChar(c) == (CHOOSE i \in 1..64 : Base64Alphabet[i] = c) - 1

inAlphabet(c) == \E i \in 1..64 : Base64Alphabet[i] = c

\* One quantum of four characters: its bytes, less those the padding
\* stands for; padding is legal only at the end of the last quantum.
decodeQuantum(q, last) ==
  LET pad == IF q[4] # "=" THEN 0 ELSE IF q[3] # "=" THEN 1 ELSE 2
      val == decodeChar(q[1]) * 262144 + decodeChar(q[2]) * 4096
             + (IF pad < 2 THEN decodeChar(q[3]) * 64 ELSE 0)
             + (IF pad < 1 THEN decodeChar(q[4]) ELSE 0)
      bytes == << (val \div 65536) % 256, (val \div 256) % 256, val % 256 >>
  IN IF \/ ~inAlphabet(q[1]) \/ ~inAlphabet(q[2])
        \/ (q[3] # "=" /\ ~inAlphabet(q[3]))
        \/ (q[4] # "=" /\ ~inAlphabet(q[4]))
        \/ (q[3] = "=" /\ q[4] # "=")
        \/ (pad > 0 /\ ~last)
     THEN [data |-> <<>>, err |-> CorruptInput]
     ELSE [data |-> SubSeq(bytes, 1, 3 - pad), err |-> nil]

\* base64.StdEncoding.DecodeString
RECURSIVE DecodeString(_)
DecodeString(s) ==
  IF Len(s) = 0 THEN [data |-> <<>>, err |-> nil]
  ELSE IF Len(s) < 4 THEN [data |-> <<>>, err |-> CorruptInput]
  ELSE LET head == decodeQuantum(SubSeq(s, 1, 4), Len(s) = 4)
           rest == DecodeString(SubSeq(s, 5, Len(s)))
       IN IF head.err # nil THEN head
          ELSE IF rest.err # nil THEN rest
          ELSE [data |-> head.data \o rest.data, err |-> nil]

\* func (s Secrets) GetSecret(name string) (string, error)
GetSecret(s, name) ==
  IF name \notin DOMAIN s
  THEN [secret |-> <<>>, err |-> "Did not find secret"]
  ELSE IF DecodeString(s[name]).err # nil
       THEN [secret |-> <<>>, err |-> DecodeString(s[name]).err]
       ELSE [secret |-> DecodeString(s[name]).data, err |-> nil]

\* func (s Secrets) AddSecret(name, content string)
AddSecret(s, name, content) ==
  [n \in DOMAIN s \cup {name} |-> IF n = name THEN EncodeToString(content) ELSE s[n]]

\* func (s Secrets) RemoveSecret(name string)
RemoveSecret(s, name) == [n \in DOMAIN s \ {name} |-> s[n]]

\* The names and the contents (bytes) the store is used with.
SecretNames == {"latest.properties", "latest.properties2"}
SecretBytes == {70, 255}
MaxContent == 3
Contents == UNION { [1..n -> SecretBytes] : n \in 0..MaxContent }

\* The maps a vault comes with: none, the text "FOO=TEST\n" encoded, or a
\* text that is not base64.
StoredSecrets ==
  { << >>,
    [n \in {"latest.properties"} |->
       <<"R", "k", "9", "P", "P", "V", "R", "F", "U", "1", "Q", "K">>],
    [n \in {"latest.properties"} |-> <<"!", "!", "!", "!">>] }

secretsFrame == <<commandVars, overrideConfig, localhost, vaults, vault,
                  shouldDelete, vaultCalls, permissions>>

InitSecrets ==
  /\ NoDispatch
  /\ vaults = << >> /\ vault = [none |-> TRUE]
  /\ shouldDelete = "none" /\ vaultCalls = <<>>
  /\ permissions = <<>>
  /\ secrets \in StoredSecrets
  /\ fnArgs = NoCall
  /\ fnRet = NoCall

callGetSecret ==
  \E name \in SecretNames :
    /\ fnArgs' = [fn |-> "GetSecret", name |-> name]
    /\ fnRet' = [fn |-> "GetSecret", ret |-> GetSecret(secrets, name)]
    /\ UNCHANGED <<secretsFrame, secrets>>

callAddSecret ==
  \E name \in SecretNames, content \in Contents :
    /\ fnArgs' = [fn |-> "AddSecret", name |-> name, content |-> content]
    /\ fnRet' = [fn |-> "AddSecret"]
    /\ secrets' = AddSecret(secrets, name, content)
    /\ UNCHANGED secretsFrame

callRemoveSecret ==
  \E name \in SecretNames :
    /\ fnArgs' = [fn |-> "RemoveSecret", name |-> name]
    /\ fnRet' = [fn |-> "RemoveSecret"]
    /\ secrets' = RemoveSecret(secrets, name)
    /\ UNCHANGED secretsFrame

SpecSecrets ==
  InitSecrets /\ [][callGetSecret \/ callAddSecret \/ callRemoveSecret]_vars

\* -- client.Permissions --
\* AddGroup without the loop that looks for the group.
AddGroupWithoutTheLookup(groups, group) ==
  [groups |-> Append(groups, group), err |-> nil]

\* func (p Permissions) AddGroup(group string) error: the "groups" list
\* after the call, and the error.
AddGroup(groups, group) ==
  IF \E i \in 1..Len(groups) : groups[i] = group
  THEN [groups |-> groups, err |-> "Group already exists"]
  ELSE [groups |-> Append(groups, group), err |-> nil]

\* func (p Permissions) DeleteGroup(group string) error: the first element
\* equal to group is cut out with append(groups[:i], groups[i+1:]...).
DeleteGroup(groups, group) ==
  IF \E i \in 1..Len(groups) : groups[i] = group
  THEN LET i == CHOOSE i \in 1..Len(groups) :
                  groups[i] = group /\ \A j \in 1..(i - 1) : groups[j] # group
       IN [groups |-> SubSeq(groups, 1, i - 1) \o SubSeq(groups, i + 1, Len(groups)),
           err |-> nil]
  ELSE [groups |-> groups, err |-> "Did not find group"]

\* func (p Permissions) GetGroups() []string
GetGroups(groups) == groups

Groups == {"devops", "test-group", "ops", "dev"}

permissionsFrame == <<commandVars, overrideConfig, localhost, vaults, vault,
                      shouldDelete, vaultCalls, secrets>>

\* A vault's permissions: no group, or the group devops.
InitPermissions ==
  /\ NoDispatch
  /\ vaults = << >> /\ vault = [none |-> TRUE]
  /\ shouldDelete = "none" /\ vaultCalls = <<>>
  /\ secrets = << >>
  /\ permissions \in { <<>>, <<"devops">> }
  /\ fnArgs = NoCall
  /\ fnRet = NoCall

callAddGroup ==
  \E group \in Groups :
    /\ fnArgs' = [fn |-> "AddGroup", group |-> group]
    /\ fnRet' = [fn |-> "AddGroup", err |-> AddGroup(permissions, group).err]
    /\ permissions' = AddGroup(permissions, group).groups
    /\ UNCHANGED permissionsFrame

callDeleteGroup ==
  \E group \in Groups :
    /\ fnArgs' = [fn |-> "DeleteGroup", group |-> group]
    /\ fnRet' = [fn |-> "DeleteGroup", err |-> DeleteGroup(permissions, group).err]
    /\ permissions' = DeleteGroup(permissions, group).groups
    /\ UNCHANGED permissionsFrame

callGetGroups ==
  /\ fnArgs' = [fn |-> "GetGroups"]
  /\ fnRet' = [fn |-> "GetGroups", groups |-> GetGroups(permissions)]
  /\ UNCHANGED <<permissionsFrame, permissions>>

SpecPermissions ==
  InitPermissions /\ [][callAddGroup \/ callDeleteGroup \/ callGetGroups]_vars

\* ---- what a step reads and writes ----------------------------------------
\* The objects the next step of task t touches other than the result
\* channels: reads and writes name the objects reachable from several
\* goroutines, units the partitions (deployment units) it reads.
\*   deploy:   performDeploy reads partition.Cluster.Reachable, then builds
\*             the payload from the partition and overrideConfig and calls
\*             the client it was handed (evaluated by the go statement's
\*             caller);
\*   redeploy: performRedeploy likewise, without the override map;
\*   plan:     deployToCluster ranges over its own cluster's units; for a
\*             reachable unit it reads overrides, and getClient reads
\*             AO.Localhost and either assigns DefaultApiClient.Affiliation
\*             (localhost) or reads DefaultApiClient.RefName; cli.Deploy then
\*             uses that client.
Accesses(t) ==
  LET pc == task[t].pc IN
  [reads  |-> IF pc # "call" THEN {}
              ELSE IF gen = "plan" THEN {"overrides", "AO", "DefaultApiClient"}
              ELSE IF gen = "redeploy" THEN {}
              ELSE {"overrides"},
   writes |-> IF gen = "plan" /\ pc = "call" /\ localhost
              THEN {"DefaultApiClient"} ELSE {},
   units  |-> IF gen = "plan"
              THEN (IF pc = "loop" THEN task[t].todo
                    ELSE IF pc = "call" THEN {task[t].cur} ELSE {})
              ELSE (IF pc \in {"start", "call"} THEN {t} ELSE {})]

\* The orchestrating flow: the range loop reads the partition map, the
\* collecting loop appends to its own allResults.
MainAccesses ==
  [reads  |-> IF mainpc = "dispatch" THEN {"partitions"} ELSE {},
   writes |-> IF mainpc = "collect" THEN {"allResults"} ELSE {},
   units  |-> IF mainpc = "dispatch" THEN DOMAIN partitions ELSE {}]

\* The dispatch with AO.Localhost set.
SpecLocalhost == (\E g \in Generations : InitDispatch(g, TRUE)) /\ [][Next]_vars

\* ---- the vault commands: cmd/vault.go over the client of part_004 ---------
\* The vault names on the command line and the vaults the server may hold.
VaultNames == {"v1", "v2"}
VaultStores == UNION { [names -> StoredSecrets] : names \in SUBSET VaultNames }

\* No vault: the nil *AuroraSecretVault.
NilVault == [none |-> TRUE]
VaultNotFound == "vault not found"

\* api.GetVault(vaultName): nil and the error when the request fails or the
\* response holds no vault to parse, the vault otherwise.
GetVault(store, vaultName) ==
  {[vault |-> NilVault, err |-> TransportError]}
    \cup IF vaultName \in DOMAIN store
         THEN {[vault |-> [Name |-> vaultName, Secrets |-> store[vaultName]],
                err |-> nil]}
         ELSE {[vault |-> NilVault, err |-> VaultNotFound]}

\* api.DeleteVault(vaultName): the error of the request, or the response's
\* message when it is not a success; the server drops the vault on success.
apiDeleteVault(store, vaultName) ==
  {[store |-> store, err |-> TransportError]}
    \cup IF vaultName \in DOMAIN store
         THEN {[store |-> [n \in DOMAIN store \ {vaultName} |-> store[n]],
                err |-> nil]}
         ELSE {[store |-> store, err |-> VaultNotFound]}

\* api.SaveVault(vault, validate): a PUT of the whole vault under vault.Name;
\* the server stores it, replacing what it held under that name, or refuses.
SaveVault(store, v, validate) ==
  {[store |-> store, err |-> TransportError],
   [store |-> store, err |-> "vault refused"],
   [store |-> [n \in DOMAIN store \cup {v.Name} |->
                 IF n = v.Name THEN v.Secrets ELSE store[n]],
    err |-> nil]}

\* The arguments of the three commands: two vault names for rename, one for
\* delete, and for DeleteSecret the parts strings.Split(args[0], "/") gives.
VaultArguments(command) ==
  IF command = "RenameVault" THEN VaultNames \X VaultNames
  ELSE IF command = "DeleteVault" THEN {<<n>> : n \in VaultNames}
  ELSE {<<"v1">>, <<"v1", "latest.properties">>, <<"v2", "latest.properties">>,
        <<"v1", "latest.properties", "x">>}

VaultCommands == {"RenameVault", "DeleteVault", "DeleteSecret"}
ErrNotValidSecretArgument == "not a valid argument, must be <vaultname/secret>"
AlreadyExists == "Can't rename vault. It already exists"

vaultFrame == <<reachable, partitions, started, task, received, allResults,
                dispErr, printErr, calls, remote, emitted, unitCount, infos,
                shouldDeploy, reported, fnArgs, fnRet, gen, overrideConfig,
                localhost, secrets, permissions>>

InitVault ==
  /\ gen \in VaultCommands
  /\ fnArgs \in {[fn |-> gen, args |-> a] : a \in VaultArguments(gen)}
  /\ fnRet = NoCall
  /\ vaults \in VaultStores
  /\ vault = NilVault
  /\ shouldDelete = "none"
  /\ vaultCalls = <<>>
  /\ mainpc = "entry"
  /\ cmdErr = "none"
  /\ reachable = << >> /\ infos = <<>> /\ partitions = << >> /\ unitCount = 0
  /\ shouldDeploy = "none" /\ reported = <<>> /\ started = {} /\ task = << >>
  /\ received = 0 /\ allResults = <<>> /\ dispErr = "none" /\ printErr = "none"
  /\ calls = << >> /\ remote = << >> /\ emitted = << >>
  /\ overrideConfig = << >> /\ localhost = FALSE
  /\ secrets = << >> /\ permissions = <<>>

\* A request the command has sent and the error it got back.
Request(op, name, err) == [op |-> op, name |-> name, err |-> err]

\* -- DeleteVault, cmd/vault.go:314-332 --
\* err := DefaultApiClient.DeleteVault(args[0]); if err != nil { return err }
deleteVaultCall ==
  /\ gen = "DeleteVault" /\ mainpc = "entry"
  /\ \E answer \in apiDeleteVault(vaults, fnArgs.args[1]) :
       /\ vaults' = answer.store
       /\ vaultCalls' = Append(vaultCalls, Request("DeleteVault", fnArgs.args[1], answer.err))
       /\ IF answer.err # nil
          THEN mainpc' = "done" /\ cmdErr' = answer.err
          ELSE mainpc' = "confirm" /\ UNCHANGED cmdErr
  /\ UNCHANGED <<vault, shouldDelete, vaultFrame>>

\* shouldDelete := prompt.Confirm(message); both answers return nil
deleteVaultConfirm ==
  /\ gen = "DeleteVault" /\ mainpc = "confirm"
  /\ shouldDelete' \in {"true", "false"}
  /\ mainpc' = "done"
  /\ cmdErr' = nil
  /\ UNCHANGED <<vaults, vault, vaultCalls, vaultFrame>>

\* -- DeleteSecret, cmd/vault.go:281-312 --
\* the split of args[0] and vault, err := DefaultApiClient.GetVault(vaultName)
deleteSecretGet ==
  /\ gen = "DeleteSecret" /\ mainpc = "entry"
  /\ IF Len(fnArgs.args) # 2
     THEN /\ mainpc' = "done" /\ cmdErr' = ErrNotValidSecretArgument
          /\ UNCHANGED <<vault, vaultCalls>>
     ELSE \E answer \in GetVault(vaults, fnArgs.args[1]) :
            /\ vault' = answer.vault
            /\ vaultCalls' = Append(vaultCalls, Request("GetVault", fnArgs.args[1], answer.err))
            /\ IF answer.err # nil
               THEN mainpc' = "done" /\ cmdErr' = answer.err
               ELSE mainpc' = "confirm" /\ UNCHANGED cmdErr
  /\ UNCHANGED <<vaults, shouldDelete, vaultFrame>>

\* shouldDelete := prompt.Confirm(message); if !shouldDelete { return nil }
deleteSecretConfirm ==
  /\ gen = "DeleteSecret" /\ mainpc = "confirm"
  /\ \E answer \in BOOLEAN :
       /\ shouldDelete' = IF answer THEN "true" ELSE "false"
       /\ IF answer
          THEN mainpc' = "save" /\ UNCHANGED cmdErr
          ELSE mainpc' = "done" /\ cmdErr' = nil
  /\ UNCHANGED <<vaults, vault, vaultCalls, vaultFrame>>

\* vault.Secrets.RemoveSecret(secret); err = DefaultApiClient.SaveVault(*vault, true)
deleteSecretSave ==
  /\ gen = "DeleteSecret" /\ mainpc = "save"
  /\ LET removed == [vault EXCEPT !.Secrets = RemoveSecret(@, fnArgs.args[2])] IN
     \E answer \in SaveVault(vaults, removed, TRUE) :
       /\ vault' = removed
       /\ vaults' = answer.store
       /\ vaultCalls' = Append(vaultCalls, Request("SaveVault", removed.Name, answer.err))
       /\ cmdErr' = answer.err
  /\ mainpc' = "done"
  /\ UNCHANGED <<shouldDelete, vaultFrame>>

\* -- RenameVault, cmd/vault.go:169-198 --
\* vault, err := DefaultApiClient.GetVault(args[1]); if vault != nil { return
\* the error "already exists" }: err itself is not looked at.
renameVaultGetNew ==
  /\ gen = "RenameVault" /\ mainpc = "entry"
  /\ \E answer \in GetVault(vaults, fnArgs.args[2]) :
       /\ vault' = answer.vault
       /\ vaultCalls' = Append(vaultCalls, Request("GetVault", fnArgs.args[2], answer.err))
       /\ IF answer.vault # NilVault
          THEN mainpc' = "done" /\ cmdErr' = AlreadyExists
          ELSE mainpc' = "getOld" /\ UNCHANGED cmdErr
  /\ UNCHANGED <<vaults, shouldDelete, vaultFrame>>

\* vault, err = DefaultApiClient.GetVault(args[0]); vault.Name = args[1]
renameVaultGetOld ==
  /\ gen = "RenameVault" /\ mainpc = "getOld"
  /\ \E answer \in GetVault(vaults, fnArgs.args[1]) :
       /\ vaultCalls' = Append(vaultCalls, Request("GetVault", fnArgs.args[1], answer.err))
       /\ IF answer.err # nil
          THEN /\ vault' = answer.vault
               /\ mainpc' = "done" /\ cmdErr' = answer.err
          ELSE /\ vault' = [answer.vault EXCEPT !.Name = fnArgs.args[2]]
               /\ mainpc' = "save" /\ UNCHANGED cmdErr
  /\ UNCHANGED <<vaults, shouldDelete, vaultFrame>>

\* err = DefaultApiClient.SaveVault(*vault, false)
renameVaultSave ==
  /\ gen = "RenameVault" /\ mainpc = "save"
  /\ \E answer \in SaveVault(vaults, vault, FALSE) :
       /\ vaults' = answer.store
       /\ vaultCalls' = Append(vaultCalls, Request("SaveVault", vault.Name, answer.err))
       /\ IF answer.err # nil
          THEN mainpc' = "done" /\ cmdErr' = answer.err
          ELSE mainpc' = "delete" /\ UNCHANGED cmdErr
  /\ UNCHANGED <<vault, shouldDelete, vaultFrame>>

\* err = DefaultApiClient.DeleteVault(args[0])
renameVaultDelete ==
  /\ gen = "RenameVault" /\ mainpc = "delete"
  /\ \E answer \in apiDeleteVault(vaults, fnArgs.args[1]) :
       /\ vaults' = answer.store
       /\ vaultCalls' = Append(vaultCalls, Request("DeleteVault", fnArgs.args[1], answer.err))
       /\ cmdErr' = answer.err
  /\ mainpc' = "done"
  /\ UNCHANGED <<vault, shouldDelete, vaultFrame>>

NextVault ==
  \/ deleteVaultCall
  \/ deleteVaultConfirm
  \/ deleteSecretGet
  \/ deleteSecretConfirm
  \/ deleteSecretSave
  \/ renameVaultGetNew
  \/ renameVaultGetOld
  \/ renameVaultSave
  \/ renameVaultDelete

SpecVault == InitVault /\ [][NextVault]_vars

\* ---- observations the properties are stated over ---------------------------
\* The dispatcher has returned to the command.
Returned == mainpc \in {"returned", "done"}

\* The per-application results of a bundle.
BundleResults(b) == IF gen = "redeploy" THEN b.redeployResults.Results ELSE b.Results

\* The bundle-level success flag of a bundle.
BundleSuccess(b) == IF gen = "redeploy" THEN b.redeployResults.Success ELSE b.Success

\* The per-application results of all returned bundles, in arrival order.
ReturnedResults ==
  Flatten([i \in 1..Len(allResults) |-> BundleResults(allResults[i])])

\* The applications handed to the dispatcher.
DispatchedApps == UNION {Range(partitions[k].apps) : k \in DOMAIN partitions}

\* The results returned for application a.
ResultsFor(a) == {i \in 1..Len(ReturnedResults) : ReturnedResults[i].app = a}

\* The number of bundles task t has sent on the result channel.
SentBy(t) ==
  SumOver([k \in DOMAIN partitions |-> Len(emitted[k])], UnitsOf(gen, partitions, t))

\* The partition's cluster is reachable.
Reachable(k) == reachable[partitions[k].cluster]

\* The task that owns partition k.
TaskOf(k) == IF gen = "plan" THEN k[1] ELSE k

\* The remote call of partition k has returned an error / a result.
RemoteFailed(k) == remote[k] # NoAnswer /\ remote[k].err # nil
RemoteSucceeded(k) == remote[k] # NoAnswer /\ remote[k].err = nil

\* The positions of partition k's bundle in the returned list.
BundlesOf(k) ==
  {i \in 1..Len(allResults) :
     [j \in 1..Len(BundleResults(allResults[i])) |-> BundleResults(allResults[i])[j].app]
       = partitions[k].apps}

\* Every entry of bundle b is a failure with the given reason, one entry per
\* application of partition k, in order.
AllFailedWith(b, k, reason) ==
  /\ Len(BundleResults(b)) = Len(partitions[k].apps)
  /\ \A i \in 1..Len(BundleResults(b)) :
       /\ BundleResults(b)[i].app = partitions[k].apps[i]
       /\ BundleResults(b)[i].Success = FALSE
       /\ BundleResults(b)[i].Reason = reason

\* ---- C1 --------------------------------------------------------------------
\* C1: when the dispatcher has returned, the returned bundles hold exactly
\* one result for every application of the partitions it was handed and
\* nothing else: the count of results equals the count of applications.
C1_OneResultPerApplication ==
  Returned =>
    /\ Len(ReturnedResults) = Cardinality(DispatchedApps)
    /\ \A a \in DispatchedApps : Cardinality(ResultsFor(a)) = 1

\* C1 for the generations deploy and redeploy alone: there it holds.
C1_DeployRedeploy == gen \in {"deploy", "redeploy"} => C1_OneResultPerApplication

\* C1, its case: a dispatch over two partitions has returned.
C1_Witness ==
  /\ gen \in {"deploy", "redeploy"} /\ Returned
  /\ Cardinality(DOMAIN partitions) = 2
  /\ \E k \in DOMAIN partitions : ~Reachable(k)
  /\ \E k \in DOMAIN partitions : RemoteFailed(k)

\* ---- C2 --------------------------------------------------------------------
\* C2: a task never sends two bundles on the result channel, and a task
\* that has finished has sent exactly one.
C2_ExactlyOneBundlePerTask ==
  \A t \in Tasks :
    /\ SentBy(t) <= 1
    /\ task[t].pc = "done" => SentBy(t) = 1

\* C2 for the generations deploy and redeploy alone: there it holds.
C2_DeployRedeploy == gen \in {"deploy", "redeploy"} => C2_ExactlyOneBundlePerTask

\* C2, its case: tasks on each of the three paths have finished.
C2_Witness ==
  /\ gen \in {"deploy", "redeploy"}
  /\ \E t \in Tasks : task[t].pc = "done" /\ ~Reachable(t)
  /\ \E t \in Tasks : task[t].pc = "done" /\ RemoteFailed(t)

\* ---- C3 --------------------------------------------------------------------
\* C3: when the dispatcher has returned, the list it returns has as many
\* bundles as there are partitions and holds every partition's bundle
\* exactly once.
C3_EveryBundleOnce ==
  Returned =>
    /\ Len(allResults) = Cardinality(DOMAIN partitions)
    /\ \A k \in DOMAIN partitions :
         /\ Cardinality(BundlesOf(k)) = 1
         /\ emitted[k] = << allResults[CHOOSE i \in BundlesOf(k) : TRUE] >>

\* C3 for the generations deploy and redeploy alone: there it holds.
C3_DeployRedeploy == gen \in {"deploy", "redeploy"} => C3_EveryBundleOnce

\* C3, its case: two partitions, the bundles arrived in both orders.
C3_Witness ==
  /\ gen \in {"deploy", "redeploy"} /\ Returned
  /\ Cardinality(DOMAIN partitions) = 2
  /\ \E k \in DOMAIN partitions : BundlesOf(k) = {2} /\ k[1] = "east"

\* ---- C4 --------------------------------------------------------------------
\* The command has ended and every task has run to its end.
AllFinished == mainpc = "done" /\ \A t \in Tasks : task[t].pc = "done"

\* C4: a run never comes to a stop (no step of the command or of a task
\* possible, every remote call having returned) anywhere but with the
\* dispatcher returned and every task finished: nobody waits forever.
C4_NeverStuck == AllFinished \/ ENABLED Next

\* C4 as the claim words it: under fair scheduling the dispatcher
\* eventually returns and every task eventually finishes.
C4_EventuallyAllFinished == <>AllFinished

\* C4 for the generations deploy and redeploy alone: there it holds.
C4_DeployRedeploy == gen \in {"deploy", "redeploy"} => <>AllFinished

\* C4: once the dispatcher has returned no task is left behind.
C4_NoTaskLeftBehind ==
  gen \in {"deploy", "redeploy"} /\ Returned => \A t \in Tasks : task[t].pc = "done"

\* ---- C5 --------------------------------------------------------------------
\* C5: the dispatcher returns a nil error whatever failed; a partition that
\* failed (unreachable cluster, failed call) is in the returned list as
\* failed results, and a partition whose call succeeded is in it with the
\* results the remote operation gave, whatever happened to the others.
C5_FailuresStayLocal ==
  Returned =>
    /\ dispErr = nil
    /\ \A k \in DOMAIN partitions :
         /\ (~Reachable(k) \/ RemoteFailed(k)) =>
              \E i \in BundlesOf(k) :
                \A j \in 1..Len(BundleResults(allResults[i])) :
                  ~BundleResults(allResults[i])[j].Success
         /\ RemoteSucceeded(k) =>
              \E i \in BundlesOf(k) :
                BundleResults(allResults[i]) = remote[k].result.Results

\* C5 for the generations deploy and redeploy alone: there it holds.
C5_DeployRedeploy == gen \in {"deploy", "redeploy"} => C5_FailuresStayLocal

\* C5, its case: one partition failed, another succeeded, the dispatcher
\* has returned.
C5_Witness ==
  /\ gen \in {"deploy", "redeploy"} /\ Returned
  /\ \E k \in DOMAIN partitions : RemoteFailed(k)
  /\ \E k \in DOMAIN partitions :
       RemoteSucceeded(k) /\ \A j \in 1..Len(remote[k].result.Results) :
                               remote[k].result.Results[j].Success

\* ---- C6 --------------------------------------------------------------------
\* C6: the remote operation is never invoked for a partition whose cluster
\* is unreachable, and the task of that partition, once finished, has
\* emitted one bundle with a failed result "Cluster is not reachable" for
\* every application of the partition.
C6_UnreachableFailsWithoutCall ==
  \A k \in DOMAIN partitions :
    ~Reachable(k) =>
      /\ calls[k] = <<>>
      /\ task[TaskOf(k)].pc = "done" =>
           /\ Len(emitted[k]) = 1
           /\ AllFailedWith(emitted[k][1], k, NotReachable)

\* C6 for the generations deploy and redeploy alone: there it holds.
C6_DeployRedeploy == gen \in {"deploy", "redeploy"} => C6_UnreachableFailsWithoutCall

\* C6, its case: the task of an unreachable two-application partition has
\* finished.
C6_Witness ==
  /\ gen \in {"deploy", "redeploy"}
  /\ \E k \in DOMAIN partitions :
       ~Reachable(k) /\ task[k].pc = "done" /\ Len(partitions[k].apps) = 2

\* ---- C7 --------------------------------------------------------------------
\* C7: the task of a partition whose remote call returned an error has,
\* once finished, emitted one bundle marked not successful, with one failed
\* result per application carrying the error's message and (deploy) the
\* deploy id "-".
C7_RemoteErrorBecomesResults ==
  \A k \in DOMAIN partitions :
    RemoteFailed(k) /\ task[TaskOf(k)].pc = "done" =>
      /\ Len(emitted[k]) = 1
      /\ AllFailedWith(emitted[k][1], k, remote[k].err)
      /\ ~BundleSuccess(emitted[k][1])
      /\ gen # "redeploy" =>
           \A i \in 1..Len(emitted[k][1].Results) : emitted[k][1].Results[i].DeployId = "-"

\* C7 for the generations deploy and redeploy alone: there it holds.
C7_DeployRedeploy == gen \in {"deploy", "redeploy"} => C7_RemoteErrorBecomesResults

\* C7, its case: the task of a two-application partition whose call failed
\* has finished.
C7_Witness ==
  /\ gen \in {"deploy", "redeploy"}
  /\ \E k \in DOMAIN partitions :
       RemoteFailed(k) /\ task[k].pc = "done" /\ Len(partitions[k].apps) = 2

\* ---- C8 --------------------------------------------------------------------
\* What a bundle carries of the remote operation's answer.
BundleBody(b) == IF gen = "redeploy" THEN b.redeployResults ELSE b

\* C8: when the remote call of a partition returned without error, the
\* bundle its task holds for sending, and every bundle it has sent for that
\* partition, is the remote operation's result, entry for entry.
C8_SuccessfulResultUnchanged ==
  \A k \in DOMAIN partitions :
    RemoteSucceeded(k) =>
      /\ \A i \in 1..Len(emitted[k]) : BundleBody(emitted[k][i]) = remote[k].result
      /\ (task[TaskOf(k)].pc = "send" /\ (gen = "plan" => task[TaskOf(k)].cur = k)) =>
           BundleBody(task[TaskOf(k)].val) = remote[k].result

\* C8, its case: the bundle of a two-application partition whose call
\* succeeded with an ignored and a failed entry has been received.
C8_Witness ==
  \E k \in DOMAIN partitions :
    /\ RemoteSucceeded(k) /\ Len(emitted[k]) = 1
    /\ Len(partitions[k].apps) = 2
    /\ remote[k].result.Results[1].Ignored
    /\ ~remote[k].result.Results[2].Success

\* ---- C9 --------------------------------------------------------------------
\* The aggregate outcome of the spec: the list is non-empty and every entry
\* succeeded.
AggregateSuccess ==
  /\ Len(ReturnedResults) > 0
  /\ \A i \in 1..Len(ReturnedResults) : ReturnedResults[i].Success

\* C9: the result aggregator reports success exactly when the flattened
\* list is non-empty and every entry succeeded, and reports the empty list
\* as "No deploys were made".
C9_SuccessIffAllSucceeded ==
  printErr # "none" =>
    /\ printErr = nil <=> AggregateSuccess
    /\ Len(ReturnedResults) = 0 <=> printErr = "No deploys were made"

\* C9 for the lists with an entry that is not ignored, and for the empty
\* list: there it holds.
C9_WithAVisibleEntry ==
  (printErr # "none" /\ (Len(ReturnedResults) = 0
                          \/ \E i \in 1..Len(ReturnedResults) : ~ReturnedResults[i].Ignored))
    => C9_SuccessIffAllSucceeded

\* ---- C10 -------------------------------------------------------------------
\* Some per-application result of the returned bundles failed.
SomeResultFailed == \E i \in 1..Len(ReturnedResults) : ~ReturnedResults[i].Success

\* C10: the command that has dispatched returns a non-nil error whenever at
\* least one per-application result failed, and nil only when every result
\* succeeded.
C10_ExitFollowsOutcome ==
  mainpc = "done" =>
    /\ SomeResultFailed => cmdErr # nil
    /\ cmdErr = nil => ~SomeResultFailed


\* ---- C11: declining the confirmation ----------------------------------------
\* No remote call has been made for any partition or unit.
NoRemoteCall == \A k \in DOMAIN calls : calls[k] = <<>>

NothingToDo == {"No applications to deploy", "No applications to redeploy"}

\* C11: once the user has declined the confirmation prompt, no task has been
\* started, no remote Deploy/Redeploy call has been made, there is no result
\* list, and the command has ended with the "No applications to
\* deploy/redeploy" error.
C11_DeclineEndsWithNothingToDo ==
  shouldDeploy = "false" =>
    /\ started = {}
    /\ NoRemoteCall
    /\ allResults = <<>> /\ reported = <<>>
    /\ mainpc = "exit"
    /\ cmdErr \in NothingToDo

\* The deploy, redeploy and plan generations do end a declined run that way.
C11_DeployRedeployPlan == gen \in Generations => C11_DeclineEndsWithNothingToDo

\* ---- C12: errors before the dispatch ----------------------------------------
\* The errors a command returns before it dispatches anything.
PreDispatchErrors ==
  NothingToDo \cup {"No such cluster", "cluster is not reachable", "is not a valid json",
                    "Deploy with version does only support one application"}

\* The flow has not reached the dispatcher.
BeforeDispatch ==
  mainpc \in {"start", "override", "resolve", "partition", "confirm", "payload", "exit"}

\* C12: a run that has ended before the dispatch, or with one of the errors
\* of resolution, override validation, partitioning or confirmation, has
\* started no task and made no remote call; and a task is only ever started
\* after the specs were resolved, the partitions built and the confirmation
\* given.
C12_NoDispatchBeforeTheChecksPass ==
  /\ (mainpc = "exit" \/ cmdErr \in PreDispatchErrors) => (started = {} /\ NoRemoteCall)
  /\ started # {} =>
       /\ ~BeforeDispatch
       /\ shouldDeploy = "true"
       /\ started \subseteq TaskIds(gen, partitions)

\* A run the user declined after the partitions were built: its tasks exist
\* and none was started.
C12_Witness ==
  /\ mainpc = "exit" /\ shouldDeploy = "false" /\ cmdErr \in NothingToDo
  /\ DOMAIN partitions # {} /\ started = {} /\ NoRemoteCall

\* ---- C13, C14, C15: the partitioner -----------------------------------------
\* The partitioner has returned its partitions.
Partitioned ==
  /\ mainpc \in {"confirm", "dispatch", "collect", "returned", "done", "crashed"}
  /\ gen = "plan" => mainpc # "confirm"

\* Specs i and j of the input are in one partition.
SamePartition(i, j) ==
  \E k \in DOMAIN partitions :
    /\ infos[i].app \in Range(partitions[k].apps)
    /\ infos[j].app \in Range(partitions[k].apps)

SameDestination(i, j) ==
  /\ infos[i].ClusterName = infos[j].ClusterName
  /\ infos[i].Namespace = infos[j].Namespace

\* C13: two specs of the input are in the same partition exactly when they
\* have the same cluster name and the same namespace.
C13_SamePartitionIffSameDestination ==
  Partitioned =>
    \A i, j \in DOMAIN infos : SamePartition(i, j) <=> SameDestination(i, j)

\* Two specs together, and a third of the same cluster apart from them.
C13_Witness ==
  /\ Partitioned
  /\ \E i, j, l \in DOMAIN infos :
       /\ i # j /\ SameDestination(i, j) /\ SamePartition(i, j)
       /\ infos[l].ClusterName = infos[i].ClusterName
       /\ infos[l].Namespace # infos[i].Namespace
       /\ ~SamePartition(i, l)

\* How often application a is listed in the partitions.
Occurrences(a) ==
  SumOver([k \in DOMAIN partitions |->
             Cardinality({n \in DOMAIN partitions[k].apps : partitions[k].apps[n] = a})],
          DOMAIN partitions)

\* C14: the partitions returned list every spec of the input exactly once
\* and nothing else, none of them is empty, and each one's cluster is the
\* registry's entry for the cluster its specs name.
C14_PartitionsCoverTheInput ==
  Partitioned =>
    /\ \A i \in DOMAIN infos : Occurrences(infos[i].app) = 1
    /\ \A k \in DOMAIN partitions :
         /\ partitions[k].apps # <<>>
         /\ Range(partitions[k].apps) \subseteq {infos[i].app : i \in DOMAIN infos}
         /\ partitions[k].cluster \in DOMAIN reachable
         /\ \A i \in DOMAIN infos :
              infos[i].app \in Range(partitions[k].apps)
                => infos[i].ClusterName = partitions[k].cluster

\* The deploy and redeploy generations' partitioners do all of that.
C14_DeployRedeploy == gen # "plan" => C14_PartitionsCoverTheInput

\* A spec of the input names a cluster the registry does not hold.
MissingCluster == \E i \in DOMAIN infos : infos[i].ClusterName \notin DOMAIN reachable

\* C15: when a spec names a cluster absent from the registry, no partitions
\* are returned and no task is ever started.
C15_MissingClusterStopsTheRun ==
  MissingCluster => (DOMAIN partitions = {} /\ started = {})

\* The deploy and redeploy generations stop with "No such cluster".
C15_DeployRedeploy ==
  gen # "plan" =>
    /\ C15_MissingClusterStopsTheRun
    /\ (MissingCluster /\ mainpc \notin {"override", "partition"}) => mainpc = "exit"
\* ---- C16, C17: the sorted result list ---------------------------------------
\* An aggregator has returned.
Aggregated == fnRet.fn \in {"printDeployResult", "getRedeployResultTableContent"}

Count(s, x) == Cardinality({i \in DOMAIN s : s[i] = x})

IsPermutation(s, t) ==
  /\ Len(s) = Len(t)
  /\ \A x \in Range(s) \cup Range(t) : Count(s, x) = Count(t, x)

SortedByName(s) ==
  \A i, j \in DOMAIN s : i < j => Rank(Name(s[i].app)) <= Rank(Name(s[j].app))

\* C16: the list handed to the table printer is a permutation of the
\* flattened bundles and is in non-decreasing order of application name.
C16_SortedPermutation ==
  Aggregated => (IsPermutation(fnRet.sorted, fnRet.flat) /\ SortedByName(fnRet.sorted))

\* Results that arrived out of order, two of them with one name.
C16_Witness ==
  /\ Aggregated
  /\ ~SortedByName(fnRet.flat)
  /\ \E i, j \in DOMAIN fnRet.flat : i # j /\ Name(fnRet.flat[i].app) = Name(fnRet.flat[j].app)

\* C17: the sorted list is the same for both arrival orders of the bundles.
C17_SameListForEveryCompletionOrder ==
  Aggregated => fnRet.sorted = fnRet.sortedOther

\* It is the same when no two results carry one name.
C17_WithDistinctNames ==
  (Aggregated /\ \A i, j \in DOMAIN fnRet.flat :
                   i # j => Name(fnRet.flat[i].app) # Name(fnRet.flat[j].app))
    => fnRet.sorted = fnRet.sortedOther
\* ---- C18, C19: the resolvers ------------------------------------------------
\* The candidates of the pool that contain the search term.
Containing == { c \in Range(fnArgs.pool) : Contains(c, fnArgs.search) }

ExactMatch == fnArgs.search \in Range(fnArgs.pool)

\* C18: a search term equal to a candidate of the pool resolves to that
\* candidate, without an error, whatever else contains it.
C18_ExactMatchWins ==
  (fnRet.fn = "getFuzzyApp" /\ ExactMatch)
    => (fnRet.ret.app = fnArgs.search /\ fnRet.ret.err = noError)

\* "foo" among candidates of which another one contains it.
C18_Witness ==
  /\ fnRet.fn = "getFuzzyApp" /\ ExactMatch
  /\ fnArgs.search = foo /\ foobar \in Range(fnArgs.pool)
  /\ fnRet.ret.app = foo

Compiles(expr) == Compile(expr).err = nil

\* Application app matches none of the expressions.
MatchesNone(expressions, app) ==
  \A i \in 1..Len(expressions) : ~MatchString(Compile(expressions[i]).r, app)

\* C20: with expressions that all compile, filterExcludes returns the
\* applications that match none of them, in their order, and one more
\* expression adds no application; with one that does not compile it
\* returns the error and no applications.
C20_ExcludesKeepWhatMatchesNothing ==
  fnRet.fn = "filterExcludes" =>
    /\ (\A i \in 1..Len(fnArgs.expressions) : Compiles(fnArgs.expressions[i])) =>
         /\ fnRet.ret.err = nil
         /\ fnRet.ret.apps =
              SelectSeq(fnArgs.applications,
                        LAMBDA app : MatchesNone(fnArgs.expressions, app))
         /\ Compiles(fnArgs.extra) =>
              /\ fnRet.more.err = nil
              /\ Range(fnRet.more.apps) \subseteq Range(fnRet.ret.apps)
    /\ (\E i \in 1..Len(fnArgs.expressions) : ~Compiles(fnArgs.expressions[i])) =>
         (fnRet.ret.err # nil /\ fnRet.ret.apps = <<>>)

\* Two expressions that exclude one application each and leave the third.
C20_Witness ==
  /\ fnRet.fn = "filterExcludes"
  /\ Len(fnArgs.applications) = 3
  /\ fnArgs.expressions = << <<"r", "/", ".", "*">>, <<"z">> >>
  /\ fnRet.ret.apps = << <<"f", "/", "b">> >>

\* ---- C21: override validation ------------------------------------------------
\* The text has a ':' and what follows the first one is valid json.
WellFormedOverride(text) ==
  /\ IndexByte(text, ":") >= 0
  /\ jsonValid(SubSeq(text, IndexByte(text, ":") + 2, Len(text)))

HasSeparator(text) == IndexByte(text, ":") >= 0

\* The map binds the file name of every override to its json text.
BindsEveryOverride(override, returnMap) ==
  /\ DOMAIN returnMap =
       { SubSeq(override[i], 1, IndexByte(override[i], ":")) : i \in 1..Len(override) }
  /\ \A i \in 1..Len(override) :
       returnMap[SubSeq(override[i], 1, IndexByte(override[i], ":"))]
         = SubSeq(override[i], IndexByte(override[i], ":") + 2, Len(override[i]))

\* C21: parseOverride returns an error and no map when one of the overrides
\* is not of the form <file>:<valid json>, and for well-formed overrides
\* the map that binds each file name to its json text.
C21_MalformedOverrideIsAnError ==
  fnRet.fn = "parseOverride" =>
    IF \A i \in 1..Len(fnArgs.override) : WellFormedOverride(fnArgs.override[i])
    THEN /\ fnRet.ret.err = nil
         /\ BindsEveryOverride(fnArgs.override, fnRet.ret.returnMap)
    ELSE /\ fnRet.ret.err = "is not a valid json"
         /\ fnRet.ret.returnMap = << >>

\* C21 for overrides that all have a ':'.
C21_WithASeparator ==
  (fnRet.fn = "parseOverride"
     /\ \A i \in 1..Len(fnArgs.override) : HasSeparator(fnArgs.override[i])) =>
    IF \A i \in 1..Len(fnArgs.override) : WellFormedOverride(fnArgs.override[i])
    THEN /\ fnRet.ret.err = nil
         /\ BindsEveryOverride(fnArgs.override, fnRet.ret.returnMap)
    ELSE /\ fnRet.ret.err = "is not a valid json"
         /\ fnRet.ret.returnMap = << >>

\* C21, the run: a rejected override ends the command with nothing dispatched.
C21_RejectedOverrideStopsTheRun ==
  cmdErr \in {"is not a valid json", SliceOutOfRange} =>
    (mainpc = "exit" /\ started = {} /\ NoRemoteCall)

\* ---- C22: the confirmation gate ------------------------------------------------
\* C22: with prompts suppressed the gate answers yes without asking;
\* otherwise it asks, yes and no are taken as given, and an empty answer
\* confirms exactly a selection of one application.
C22_DefaultYesOnlyForOne ==
  fnRet.fn \in {"deployConfirmation", "getRedeployConfirmation"} =>
    IF fnArgs.force
    THEN ~fnRet.asked /\ fnRet.ret
    ELSE /\ fnRet.asked
         /\ fnArgs.answer = "y" => fnRet.ret
         /\ fnArgs.answer = "n" => ~fnRet.ret
         /\ fnArgs.answer = "" => (fnRet.ret <=> Len(fnArgs.specs) = 1)

\* An empty answer at the prompt for two applications: declined.
C22_Witness ==
  /\ fnRet.fn = "deployConfirmation"
  /\ ~fnArgs.force /\ fnArgs.answer = "" /\ Len(fnArgs.specs) = 2
  /\ fnRet.asked /\ ~fnRet.ret

\* ---- C23: a run with a mixed selection ---------------------------------------
\* The remote side answered east's call with a success for foo and for bar.
EastAnsweredTwoSuccesses ==
  /\ <<"east", "dev">> \in DOMAIN remote
  /\ RemoteSucceeded(<<"east", "dev">>)
  /\ remote[<<"east", "dev">>].result.Success
  /\ \A i \in 1..2 :
       /\ remote[<<"east", "dev">>].result.Results[i].Success
       /\ ~remote[<<"east", "dev">>].result.Results[i].Ignored

\* Two partitions, one remote call, made to east, and three results of which
\* baz's is the synthetic failure.
MixedAggregate ==
  /\ DOMAIN partitions = { <<"east", "dev">>, <<"west", "dev">> }
  /\ Len(calls[<<"east", "dev">>]) = 1
  /\ calls[<<"west", "dev">>] = <<>>
  /\ Len(ReturnedResults) = 3
  /\ \A a \in 1..3 : Cardinality(ResultsFor(a)) = 1
  /\ \A i \in 1..3 :
       IF ReturnedResults[i].app = 3
       THEN ~ReturnedResults[i].Success /\ ReturnedResults[i].Reason = NotReachable
       ELSE ReturnedResults[i].Success

\* C23: the run of the mixed selection, east answering two successes, ends
\* with the two partitions, the one call to east, the three results and a
\* failure as the command's outcome.
C23_MixedSelectionEndsInFailure ==
  (EastAnsweredTwoSuccesses /\ mainpc = "done") =>
    (MixedAggregate /\ cmdErr # nil)

\* C23 in deploy of cmd/deploy.go, the outcome read from printDeployResult.
C23_DeployAggregatesAFailure ==
  (gen = "deploy" /\ EastAnsweredTwoSuccesses /\ mainpc = "done") =>
    (MixedAggregate /\ printErr = "One or more deploys failed")

\* C23 in deploy of part_007: with east's two successes the dispatcher
\* never returns.
C23_PlanNeverReturns ==
  (gen = "plan" /\ EastAnsweredTwoSuccesses) => ~Returned

\* C23 in deploy of cmd/deploy.go: the command ends as a success.
C23_DeployEndsAsSuccess ==
  (gen = "deploy" /\ EastAnsweredTwoSuccesses /\ mainpc = "done") => cmdErr = nil

\* ---- C24: the secrets store ---------------------------------------------------
\* Every name but name has the secret it had.
OthersKeepTheirSecret(name) ==
  \A n \in SecretNames \ {name} :
    /\ n \in DOMAIN secrets' <=> n \in DOMAIN secrets
    /\ n \in DOMAIN secrets => secrets'[n] = secrets[n]

\* C24: after AddSecret(name, content) GetSecret(name) returns content;
\* GetSecret of a name the map does not hold, or of the name RemoveSecret
\* took out, returns an error; AddSecret and RemoveSecret leave the secrets
\* of the other names as they were.
C24_SecretsRoundTrip ==
  [][ /\ fnArgs'.fn = "AddSecret" =>
           /\ GetSecret(secrets', fnArgs'.name)
                = [secret |-> fnArgs'.content, err |-> nil]
           /\ OthersKeepTheirSecret(fnArgs'.name)
      /\ fnArgs'.fn = "RemoveSecret" =>
           /\ GetSecret(secrets', fnArgs'.name).err # nil
           /\ OthersKeepTheirSecret(fnArgs'.name)
      /\ fnArgs'.fn = "GetSecret" =>
           /\ secrets' = secrets
           /\ fnArgs'.name \notin DOMAIN secrets => fnRet'.ret.err # nil
    ]_vars

\* A two-byte secret was added next to another one, and read back.
C24_Witness ==
  /\ fnArgs.fn = "GetSecret" /\ fnArgs.name = "latest.properties2"
  /\ fnRet.ret = [secret |-> <<70, 255>>, err |-> nil]
  /\ "latest.properties" \in DOMAIN secrets

\* ---- C25: vault permissions ---------------------------------------------------
NoDuplicate(groups) ==
  \A i, j \in 1..Len(groups) : i # j => groups[i] # groups[j]

Holds(groups, group) == \E i \in 1..Len(groups) : groups[i] = group

\* C25: the group list never holds a group twice; AddGroup of a group of
\* the list and DeleteGroup of a group not in it return an error and leave
\* the list as it was; AddGroup of a new group appends it, and a successful
\* DeleteGroup takes out that group and keeps the others in their order.
C25_GroupsWithoutDuplicates ==
  /\ []NoDuplicate(permissions)
  /\ [][ /\ fnArgs'.fn = "AddGroup" =>
              IF Holds(permissions, fnArgs'.group)
              THEN fnRet'.err # nil /\ permissions' = permissions
              ELSE fnRet'.err = nil /\ permissions' = Append(permissions, fnArgs'.group)
         /\ fnArgs'.fn = "DeleteGroup" =>
              IF Holds(permissions, fnArgs'.group)
              THEN /\ fnRet'.err = nil
                   /\ permissions' =
                        SelectSeq(permissions, LAMBDA g : g # fnArgs'.group)
              ELSE fnRet'.err # nil /\ permissions' = permissions
         /\ fnArgs'.fn = "GetGroups" =>
              (fnRet'.groups = permissions /\ permissions' = permissions)
       ]_vars

\* The middle one of three groups was deleted.
C25_Witness ==
  /\ fnArgs.fn = "DeleteGroup" /\ fnArgs.group = "test-group"
  /\ fnRet.err = nil
  /\ permissions = <<"devops", "ops">>

\* ---- C26: the payloads ---------------------------------------------------------
\* The applications a payload names.
PayloadApps(payload) ==
  IF "applicationRefs" \in DOMAIN payload
  THEN payload.applicationRefs ELSE payload.applicationList

\* The payloads sent so far that name application a.
PayloadsWith(a) ==
  UNION { { <<k, i>> : i \in { j \in 1..Len(calls[k]) :
                                  a \in Range(PayloadApps(calls[k][j])) } }
          : k \in DOMAIN calls }

\* Every payload sent names the applications of the partition of its task,
\* in their order, and carries the command's override map.
OwnPartitionOnly ==
  \A k \in DOMAIN calls : \A i \in 1..Len(calls[k]) :
    /\ PayloadApps(calls[k][i]) = partitions[k].apps
    /\ "overrides" \in DOMAIN calls[k][i] => calls[k][i].overrides = overrideConfig

AllTasksDone == started = Tasks /\ \A t \in Tasks : task[t].pc = "done"

\* C26: a payload holds the applications of its task's partition and the
\* shared override map; no application is in two payloads, and when every
\* task has ended each application of a reachable partition is in one.
C26_OnePayloadPerApplication ==
  /\ OwnPartitionOnly
  /\ \A a \in DispatchedApps : Cardinality(PayloadsWith(a)) <= 1
  /\ AllTasksDone =>
       \A k \in DOMAIN partitions :
         (partitions[k].cluster \in DOMAIN reachable /\ Reachable(k)) =>
           \A a \in Range(partitions[k].apps) : Cardinality(PayloadsWith(a)) = 1

\* C26 in deploy of cmd/deploy.go, redeploy and deploy of part_007.
C26_DeployRedeployPlan == gen \in Generations => C26_OnePayloadPerApplication

\* Every reachable cluster of the oldest generation is sent the whole list.
C26_LegacySendsAllToEveryCluster ==
  gen = "legacy" =>
    \A k \in DOMAIN calls : \A i \in 1..Len(calls[k]) :
      Range(PayloadApps(calls[k][i])) = { infos[j].app : j \in 1..Len(infos) }
\* ---- C28 -------------------------------------------------------------------
\* C28: in one run the remote operation is invoked at most once for a
\* partition, only for a partition whose task was started, and the bundle
\* sent after a failed call is a failed one: no second call follows it.
C28_AtMostOneCallPerPartition ==
  \A k \in DOMAIN partitions :
    /\ Len(calls[k]) <= 1
    /\ calls[k] # <<>> => TaskOf(k) \in started /\ Reachable(k)
    /\ (RemoteFailed(k) /\ emitted[k] # <<>>) =>
         /\ Len(calls[k]) = 1
         /\ ~BundleSuccess(emitted[k][1])

\* C28, its case: the run has ended, the call of one partition failed and
\* the call of another succeeded.
C28_Witness ==
  /\ gen \in {"deploy", "redeploy"} /\ mainpc = "done"
  /\ \E k \in DOMAIN partitions : RemoteFailed(k) /\ Len(calls[k]) = 1
  /\ \E k \in DOMAIN partitions : RemoteSucceeded(k) /\ Len(calls[k]) = 1

\* ---- C27 -------------------------------------------------------------------
\* Two steps conflict when one writes an object the other reads or writes.
Conflict(a, b) ==
  \/ a.writes \cap (b.reads \cup b.writes) # {}
  \/ b.writes \cap (a.reads \cup a.writes) # {}

\* The tasks that have been started and have not ended.
Running == {t \in started : task[t].pc \notin {"done", "crashed"}}

\* C27: while tasks run, the next steps of two tasks, or of a task and the
\* orchestrating flow, never conflict on an object, the API client
\* included, and a task reads no partition but its own.
C27_NoConflictingAccesses ==
  /\ \A t1 \in Running : \A t2 \in Running \ {t1} :
        ~Conflict(Accesses(t1), Accesses(t2))
  /\ \A t \in Running :
        /\ ~Conflict(Accesses(t), MainAccesses)
        /\ Accesses(t).units \subseteq UnitsOf(gen, partitions, t)

\* C27 for the dispatchers of cmd/deploy.go and part_005, whose tasks are
\* handed their client by the orchestrating flow: there it holds.
C27_DeployRedeploy == gen \in {"deploy", "redeploy"} => C27_NoConflictingAccesses

\* In part_007 the conflict is on DefaultApiClient and nothing else: two
\* tasks are both about to assign its Affiliation.
C27_PlanConflictIsTheSharedClient ==
  gen = "plan" =>
    \A t1 \in Running : \A t2 \in Running \ {t1} :
      Conflict(Accesses(t1), Accesses(t2)) =>
        /\ localhost
        /\ task[t1].pc = "call" /\ task[t2].pc = "call"
        /\ Accesses(t1).writes \cap Accesses(t2).writes = {"DefaultApiClient"}

\* ---- C29 -------------------------------------------------------------------
\* The requests of the given kind the command has sent.
Sent(op) == {i \in 1..Len(vaultCalls) : vaultCalls[i].op = op}

\* C29: the vault delete command sends the DeleteVault request only after
\* the prompt has been answered yes, and after the answer no the server
\* still holds the vault.
C29_DeleteOnlyAfterYes ==
  gen = "DeleteVault" =>
    /\ Sent("DeleteVault") # {} => shouldDelete = "true"
    /\ shouldDelete = "false" => fnArgs.args[1] \in DOMAIN vaults

\* What DeleteVault does instead: whenever the prompt has been answered, yes
\* or no, the request was sent before and the vault is gone.
C29_DeleteVaultAsksAfterDeleting ==
  (gen = "DeleteVault" /\ shouldDelete # "none") =>
    /\ \E i \in Sent("DeleteVault") : vaultCalls[i].err = nil
    /\ fnArgs.args[1] \notin DOMAIN vaults

\* DeleteSecret does wait for the answer: SaveVault is sent only after a
\* yes, and after a no the server holds what it held.
C29_DeleteSecretOnlyAfterYes ==
  /\ [](gen = "DeleteSecret" => (Sent("SaveVault") # {} => shouldDelete = "true"))
  /\ [][(gen = "DeleteSecret" /\ shouldDelete # "true") => vaults' = vaults]_vars

\* ---- C30 -------------------------------------------------------------------
\* The names RenameVault was given.
OldName == fnArgs.args[1]
NewName == fnArgs.args[2]

\* A step of RenameVault that sends SaveVault.
SendsASave == Sent("SaveVault")' # Sent("SaveVault")

\* A step of RenameVault keeps what the old name holds under the old or the
\* new name.
KeepsTheSecrets ==
  OldName \in DOMAIN vaults =>
    \/ OldName \in DOMAIN vaults' /\ vaults'[OldName] = vaults[OldName]
    \/ NewName \in DOMAIN vaults' /\ vaults'[NewName] = vaults[OldName]

\* DeleteVault is sent only after a SaveVault that succeeded.
DeletedOnlyAfterTheSave ==
  Sent("DeleteVault") # {} => \E i \in Sent("SaveVault") : vaultCalls[i].err = nil

\* A SaveVault that fails leaves the server as it was.
FailedSaveChangesNothing ==
  (mainpc = "save" /\ vaultCalls'[Len(vaultCalls')].err # nil) => vaults' = vaults

\* C30: RenameVault never loses a vault: while a vault with the new name
\* exists it sends no SaveVault, it sends DeleteVault
\* only after a SaveVault that succeeded, a failed save leaves the old vault
\* as it was, and every step keeps the old vault's secrets under the old or
\* the new name.
C30_RenameNeverLosesAVault ==
  /\ [](gen = "RenameVault" => DeletedOnlyAfterTheSave)
  /\ [][gen = "RenameVault" =>
          /\ NewName \in DOMAIN vaults => ~SendsASave
          /\ FailedSaveChangesNothing
          /\ KeepsTheSecrets]_vars

\* The parts of C30 that hold in every run: the order of save and delete,
\* and the failed save.
C30_OldDeletedOnlyAfterTheSave ==
  /\ [](gen = "RenameVault" => DeletedOnlyAfterTheSave)
  /\ [][gen = "RenameVault" => FailedSaveChangesNothing]_vars

\* The rest of C30 holds in the runs where the lookup of the new name did
\* not fail: then RenameVault refuses an existing new name and keeps the
\* secrets.
C30_WhenTheLookupAnswers ==
  [][(gen = "RenameVault" /\ vaultCalls # <<>> /\ vaultCalls[1].err # TransportError) =>
       /\ NewName \in DOMAIN vaults => ~SendsASave
       /\ KeepsTheSecrets]_vars

====
